---- MODULE Spec2Model ----
(***************************************************************************)
(* Cart consistency layer of local_backend: the cart service that keeps a  *)
(* per-user cart in the DynamoDB CartTable (one row per line) with a Redis *)
(* snapshot in front of it.                                                *)
(*                                                                         *)
(* Abstractions: the updatedAt timestamps are not modelled; DynamoDB is a  *)
(* linearizable set of rows; a Query returns the rows of a user ordered by *)
(* the sort key itemId.                                                    *)
(***************************************************************************)
EXTENDS Integers, Sequences, FiniteSets, TLC

(* ------------------------------ bounds --------------------------------- *)
\* item ids 1..MaxLines are the ones requests add, update and remove
MaxLines == 2
\* item ids 1..MaxBulk are sold by storefront S1 (a cart can hold that many lines)
MaxBulk == 27
\* the clients one process builds
MaxClients == 3
\* largest quantity a request carries
MaxQty == 2

(* ----------------------------- constants ------------------------------- *)
Users == {"u1"}
Null == "null"
\* a falsy itemId (undefined, empty string)
NoItemId == 0
\* DynamoDB BatchWrite limit used by clearCartForUser
BatchSize == 25

ItemOther == MaxBulk + 1
ItemNoStore == MaxBulk + 2
ItemUnknown == MaxBulk + 3
\* the itemIds that requests carry
ItemIds == (0..MaxLines) \cup {ItemOther, ItemNoStore, ItemUnknown}
Quantities == 0..MaxQty
\* a quantity of a request body that is not a number, such as the string "abc"
NonNumeric == 0 - 1
\* the quantities a route hands on as they come out of the JSON body
\* a negative quantity of a request body (below the two markers)
NegativeQuantities == {0 - MaxQty - 2}
RawQuantities == Quantities \cup {NonNumeric} \cup NegativeQuantities
\* the JavaScript comparison a < n: false when a does not convert to a number
LessThan(a, n) == a # NonNumeric /\ a < n

StoreError == "store error"
ErrItemRequired == "itemId is required"
ErrQuantity == "Quantity must be at least 1"
ErrNotFound == "Item not found"
ErrNoStorefront == "Item is missing storefront information"
ErrConflict == "Cart already contains items from another store"
Ok == "ok"

\* the placeholder image of enrichCart
DEFAULT_IMAGE == "photo-1441986300917-64674bd600d8"

\* the ItemsTable row an item has when the run starts: items 1..MaxBulk are
\* sold by S1, ItemOther by S2, ItemNoStore has no storefront attribute,
\* ItemUnknown has no row
InitialItemsTable(i) ==
  IF i \in 1..MaxBulk
    THEN [exists |-> TRUE, storeId |-> "S1", name |-> "sku", price |-> 5,
          image |-> "img", category |-> "Books"]
  ELSE IF i = ItemOther
    THEN [exists |-> TRUE, storeId |-> "S2", name |-> "sku", price |-> 7,
          image |-> "img", category |-> "Books"]
  ELSE IF i = ItemNoStore
    THEN [exists |-> TRUE, storeId |-> Null, name |-> "sku", price |-> 3,
          image |-> "img", category |-> "Books"]
  ELSE [exists |-> FALSE, storeId |-> Null, name |-> Null, price |-> 0,
        image |-> Null, category |-> Null]

\* the items whose ItemsTable row the listing routes change during a run
ListedItems == (1..MaxLines) \cup {ItemOther}

VARIABLES
  catalog       \* ItemsTable: the rows of the listed items

\* the answer of a GetCommand or BatchGetCommand on the ItemsTable for item i
ItemsTable(i) == IF i \in ListedItems THEN catalog[i] ELSE InitialItemsTable(i)

cacheKey(userId) == "cart:" \o userId
CacheKeys == {cacheKey(u) : u \in Users}

NoCart == [userId |-> "", storeId |-> Null, items |-> <<>>]

(* --------------------------- JSON round trip --------------------------- *)
\* the catalog fields enrichCart adds to a line
CatalogFields == {"name", "price", "image", "category"}

\* JSON.stringify keeps every field of the object it is given: a line is
\* written with its cart fields and, if it carries them, its catalog fields
JSONStringify(cart) ==
  <<cart.userId, cart.storeId,
    [k \in 1..Len(cart.items) |->
       LET item == cart.items[k]
       IN <<item.itemId, item.quantity, item.storeId,
            IF CatalogFields \subseteq DOMAIN item
              THEN <<item.name, item.price, item.image, item.category>>
            ELSE <<>>>>]>>

JSONParse(s) ==
  [userId |-> s[1], storeId |-> s[2],
   items |-> [k \in 1..Len(s[3]) |->
                IF s[3][k][4] = <<>>
                  THEN [itemId |-> s[3][k][1], quantity |-> s[3][k][2],
                        storeId |-> s[3][k][3]]
                ELSE [itemId |-> s[3][k][1], quantity |-> s[3][k][2],
                      storeId |-> s[3][k][3], name |-> s[3][k][4][1],
                      price |-> s[3][k][4][2], image |-> s[3][k][4][3],
                      category |-> s[3][k][4][4]]]]

(* ---------------------------- cache helpers ---------------------------- *)
\* the value of CART_CACHE_TTL_SECONDS when the variable is not set
DefaultCartCacheTtl == 3600

VARIABLES
  CART_CACHE_TTL_SECONDS   \* the TTL the cart service passes to redis.set

\* each helper returns the new cache content, the commands it issued and
\* whether a command failed; a failure is caught and logged, never raised
readCartFromCache(rstore, client, userId, fails) ==
  IF client = Null THEN [cart |-> <<>>, calls |-> <<>>, err |-> FALSE]
  ELSE IF fails THEN [cart |-> <<>>, calls |-> <<"redis.get">>, err |-> TRUE]
  ELSE [cart |-> IF rstore[cacheKey(userId)] = <<>> THEN <<>>
                 ELSE <<JSONParse(rstore[cacheKey(userId)][1])>>,
        calls |-> <<"redis.get">>, err |-> FALSE]

\* Redis rejects SET ... EX 0 (invalid expire time); the rejection is caught
\* and logged like every other failure of the command
writeCartToCache(rstore, client, cart, fails) ==
  IF client = Null THEN [rstore |-> rstore, calls |-> <<>>, err |-> FALSE]
  ELSE IF fails \/ CART_CACHE_TTL_SECONDS = 0
    THEN [rstore |-> rstore, calls |-> <<"redis.set">>, err |-> TRUE]
  ELSE [rstore |-> [rstore EXCEPT ![cacheKey(cart.userId)] = <<JSONStringify(cart)>>],
        calls |-> <<"redis.set">>, err |-> FALSE]

clearCartCache(rstore, client, userId, fails) ==
  IF client = Null THEN [rstore |-> rstore, calls |-> <<>>, err |-> FALSE]
  ELSE IF fails THEN [rstore |-> rstore, calls |-> <<"redis.del">>, err |-> TRUE]
  ELSE [rstore |-> [rstore EXCEPT ![cacheKey(userId)] = <<>>],
        calls |-> <<"redis.del">>, err |-> FALSE]

(* --------------------------- durable store ----------------------------- *)
RowsOf(table, userId) == {row \in table : row.userId = userId}

RECURSIVE SortByItemId(_)
SortByItemId(rows) ==
  IF rows = {} THEN <<>>
  ELSE LET first == CHOOSE r \in rows : \A o \in rows : r.itemId <= o.itemId
       IN <<first>> \o SortByItemId(rows \ {first})

\* QueryCommand: the rows of the partition userId in sort-key order
QueryCommand(table, userId) == SortByItemId(RowsOf(table, userId))

\* mutant: a conditional put that refuses a row of a second storefront
PutCommand_SameStoreOnly(table, item) ==
  IF \E row \in table : row.userId = item.userId /\ row.storeId # item.storeId
    THEN table
  ELSE {row \in table : ~(row.userId = item.userId /\ row.itemId = item.itemId)}
         \cup {item}

\* mutant: the quantity of a row that is already there is added to
PutCommand_Accumulate(table, item) ==
  {row \in table : ~(row.userId = item.userId /\ row.itemId = item.itemId)}
    \cup {[item EXCEPT !.quantity =
             item.quantity
               + (IF \E row \in table : row.userId = item.userId /\ row.itemId = item.itemId
                    THEN (CHOOSE row \in table :
                            row.userId = item.userId /\ row.itemId = item.itemId).quantity
                  ELSE 0)]}

PutCommand(table, item) ==
  {row \in table : ~(row.userId = item.userId /\ row.itemId = item.itemId)}
    \cup {item}

\* mutant: a soft delete that keeps the row with quantity 0
DeleteCommand_Tombstone(table, userId, itemId) ==
  {IF row.userId = userId /\ row.itemId = itemId
     THEN [row EXCEPT !.quantity = 0] ELSE row : row \in table}

DeleteCommand(table, userId, itemId) ==
  {row \in table : ~(row.userId = userId /\ row.itemId = itemId)}

\* mutant: the delete requests are matched on the itemId alone
BatchWriteCommand_AnyUser(table, userId, chunk) ==
  {row \in table : ~(\E k \in 1..Len(chunk) : chunk[k].itemId = row.itemId)}

BatchWriteCommand(table, userId, chunk) ==
  {row \in table :
     ~(row.userId = userId /\ \E k \in 1..Len(chunk) : chunk[k].itemId = row.itemId)}

fetchCartFromDynamo(table, userId) ==
  LET result == QueryCommand(table, userId)
      items == [k \in 1..Len(result) |->
                  [itemId |-> result[k].itemId, quantity |-> result[k].quantity,
                   storeId |-> result[k].storeId]]
  IN [userId |-> userId,
      storeId |-> IF Len(items) > 0 THEN items[1].storeId ELSE Null,
      items |-> items]

(* ----------------------------- enrichment ------------------------------ *)
\* mutant: the catalog fields are copied without their defaults
enrichCart_NoDefaults(cart) ==
  LET enrichedItems ==
        [k \in 1..Len(cart.items) |->
           LET item == cart.items[k]
               product == ItemsTable(item.itemId)
           IN [itemId |-> item.itemId, quantity |-> item.quantity,
               storeId |-> IF item.storeId # Null THEN item.storeId
                           ELSE product.storeId,
               name |-> product.name,
               price |-> product.price,
               image |-> product.image,
               category |-> product.category]]
  IN [userId |-> cart.userId,
      storeId |-> IF cart.storeId # Null THEN cart.storeId
                  ELSE IF Len(enrichedItems) > 0 THEN enrichedItems[1].storeId
                  ELSE Null,
      items |-> enrichedItems]

enrichCart(cart) ==
  LET enrichedItems ==
        [k \in 1..Len(cart.items) |->
           LET item == cart.items[k]
               product == ItemsTable(item.itemId)
           IN [itemId |-> item.itemId, quantity |-> item.quantity,
               storeId |-> IF item.storeId # Null THEN item.storeId
                           ELSE product.storeId,
               name |-> IF product.exists THEN product.name ELSE "Item",
               price |-> IF product.exists THEN product.price ELSE 0,
               image |-> IF product.exists THEN product.image ELSE DEFAULT_IMAGE,
               category |-> IF product.exists THEN product.category ELSE "General"]]
  IN [userId |-> cart.userId,
      storeId |-> IF cart.storeId # Null THEN cart.storeId
                  ELSE IF Len(enrichedItems) > 0 THEN enrichedItems[1].storeId
                  ELSE Null,
      items |-> enrichedItems]

\* loadProductDetails issues a BatchGet only for a cart that has lines
EnrichCalls(cart) == IF Len(cart.items) = 0 THEN <<>> ELSE <<"BatchGet">>

(* ------------------------- handler results ----------------------------- *)
Result(table, rstore, error, cart, calls, cacheErr) ==
  [table |-> table, rstore |-> rstore, error |-> error, cart |-> cart,
   calls |-> calls, cacheErr |-> cacheErr]

NoFault == [cacheFail |-> {}, storeFail |-> "none", failChunk |-> 0]

(* --------------------------- getCartForUser ---------------------------- *)
\* mutant: a failed redis.get is rethrown instead of being treated as a miss
getCartForUser_ReadFailureRaised(table, rstore, client, userId, env) ==
  LET rd == readCartFromCache(rstore, client, userId, "get" \in env.cacheFail)
      hit == rd.cart # <<>>
      baseCart == IF hit THEN rd.cart[1] ELSE fetchCartFromDynamo(table, userId)
      wr == IF hit THEN [rstore |-> rstore, calls |-> <<>>, err |-> FALSE]
            ELSE writeCartToCache(rstore, client, baseCart, "set" \in env.cacheFail)
      c1 == rd.calls \o (IF hit THEN <<>> ELSE <<"Query">>)
      c2 == c1 \o wr.calls \o EnrichCalls(baseCart)
  IN IF rd.err
       THEN Result(table, rstore, "Redis read failed", NoCart, rd.calls, TRUE)
     ELSE IF ~hit /\ env.storeFail = "query"
       THEN Result(table, rstore, StoreError, NoCart, c1, rd.err)
     ELSE IF env.storeFail = "batchGet" /\ Len(baseCart.items) > 0
       THEN Result(table, wr.rstore, StoreError, NoCart, c2, rd.err \/ wr.err)
     ELSE Result(table, wr.rstore, Ok, enrichCart(baseCart), c2, rd.err \/ wr.err)

\* mutant: a cache hit is answered with the snapshot as it was cached
getCartForUser_HitAsCached(table, rstore, client, userId, env) ==
  LET rd == readCartFromCache(rstore, client, userId, "get" \in env.cacheFail)
      baseCart == fetchCartFromDynamo(table, userId)
      wr == writeCartToCache(rstore, client, enrichCart(baseCart), "set" \in env.cacheFail)
  IN IF rd.cart # <<>>
       THEN Result(table, rstore, Ok, rd.cart[1], rd.calls, rd.err)
     ELSE Result(table, wr.rstore, Ok, enrichCart(baseCart),
                 rd.calls \o <<"Query">> \o wr.calls \o EnrichCalls(baseCart),
                 rd.err \/ wr.err)

\* mutant: the snapshot is written back on a hit as well, to renew its TTL
getCartForUser_RefreshOnHit(table, rstore, client, userId, env) ==
  LET rd == readCartFromCache(rstore, client, userId, "get" \in env.cacheFail)
      hit == rd.cart # <<>>
      baseCart == IF hit THEN rd.cart[1] ELSE fetchCartFromDynamo(table, userId)
      wr == writeCartToCache(rstore, client, baseCart, "set" \in env.cacheFail)
      c1 == rd.calls \o (IF hit THEN <<>> ELSE <<"Query">>)
      c2 == c1 \o wr.calls \o EnrichCalls(baseCart)
  IN IF ~hit /\ env.storeFail = "query"
       THEN Result(table, rstore, StoreError, NoCart, c1, rd.err)
     ELSE IF env.storeFail = "batchGet" /\ Len(baseCart.items) > 0
       THEN Result(table, wr.rstore, StoreError, NoCart, c2, rd.err \/ wr.err)
     ELSE Result(table, wr.rstore, Ok, enrichCart(baseCart), c2, rd.err \/ wr.err)

getCartForUser(table, rstore, client, userId, env) ==
  LET rd == readCartFromCache(rstore, client, userId, "get" \in env.cacheFail)
      hit == rd.cart # <<>>
      baseCart == IF hit THEN rd.cart[1] ELSE fetchCartFromDynamo(table, userId)
      wr == IF hit THEN [rstore |-> rstore, calls |-> <<>>, err |-> FALSE]
            ELSE writeCartToCache(rstore, client, baseCart, "set" \in env.cacheFail)
      c1 == rd.calls \o (IF hit THEN <<>> ELSE <<"Query">>)
      c2 == c1 \o wr.calls \o EnrichCalls(baseCart)
  IN IF ~hit /\ env.storeFail = "query"
       THEN Result(table, rstore, StoreError, NoCart, c1, rd.err)
     ELSE IF env.storeFail = "batchGet" /\ Len(baseCart.items) > 0
       THEN Result(table, wr.rstore, StoreError, NoCart, c2, rd.err \/ wr.err)
     ELSE Result(table, wr.rstore, Ok, enrichCart(baseCart), c2, rd.err \/ wr.err)

(* ---------------------------- addItemToCart ---------------------------- *)
\* mutant: the check only fires once the cart has more than one line
CartConflict_OffByOne(existingCart, storeId) ==
  existingCart.storeId # Null /\ existingCart.storeId # storeId
    /\ Len(existingCart.items) > 1

\* mutant: the check compares against the storefront of the last line
CartConflict_Inverted(existingCart, storeId) ==
  existingCart.storeId # Null /\ existingCart.storeId = storeId
    /\ Len(existingCart.items) > 0

\* the single-storefront check of addItemToCart
CartConflict(existingCart, storeId) ==
  existingCart.storeId # Null /\ existingCart.storeId # storeId
    /\ Len(existingCart.items) > 0

\* mutant: the fresh cart is not written back after the put
RefreshAfterAdd_Skipped(rstore, client, freshCart, fails) ==
  [rstore |-> rstore, calls |-> <<>>, err |-> FALSE]

\* the cache refresh that follows the re-fetch in addItemToCart
RefreshAfterAdd(rstore, client, freshCart, fails) ==
  writeCartToCache(rstore, client, freshCart, fails)

\* mutant: the row is put before the catalog answer is looked at
addItemToCart_PutFirst(table, rstore, client, userId, itemId, quantity, env) ==
  LET itemResult == ItemsTable(itemId)
      storeId == itemResult.storeId
      existingCart == fetchCartFromDynamo(table, userId)
      updatedItem == [userId |-> userId, itemId |-> itemId, storeId |-> storeId,
                      quantity |-> quantity]
      table1 == PutCommand(table, updatedItem)
      freshCart == fetchCartFromDynamo(table1, userId)
      wr == RefreshAfterAdd(rstore, client, freshCart, "set" \in env.cacheFail)
      c4 == <<"Get", "Put", "Query", "Query">>
  IN IF itemId = NoItemId
       THEN Result(table, rstore, ErrItemRequired, NoCart, <<>>, FALSE)
     ELSE IF LessThan(quantity, 1)
       THEN Result(table, rstore, ErrQuantity, NoCart, <<>>, FALSE)
     ELSE IF ~itemResult.exists
       THEN Result(table1, rstore, ErrNotFound, NoCart, <<"Get", "Put">>, FALSE)
     ELSE IF storeId = Null
       THEN Result(table1, rstore, ErrNoStorefront, NoCart, <<"Get", "Put">>, FALSE)
     ELSE IF CartConflict(existingCart, storeId)
       THEN Result(table, rstore, ErrConflict, NoCart, <<"Get", "Query">>, FALSE)
     ELSE Result(table1, wr.rstore, Ok, enrichCart(freshCart),
                 c4 \o wr.calls \o EnrichCalls(freshCart), wr.err)

\* mutant: the storefront check looks at the cached snapshot when there is one
addItemToCart_CheckFromCache(table, rstore, client, userId, itemId, quantity, env) ==
  LET itemResult == ItemsTable(itemId)
      storeId == itemResult.storeId
      cached == readCartFromCache(rstore, client, userId, FALSE).cart
      existingCart == IF cached # <<>> THEN cached[1]
                      ELSE fetchCartFromDynamo(table, userId)
      updatedItem == [userId |-> userId, itemId |-> itemId, storeId |-> storeId,
                      quantity |-> quantity]
      table1 == PutCommand(table, updatedItem)
      freshCart == fetchCartFromDynamo(table1, userId)
      wr == RefreshAfterAdd(rstore, client, freshCart, "set" \in env.cacheFail)
      c4 == <<"Get", "Query", "Put", "Query">>
  IN IF itemId = NoItemId
       THEN Result(table, rstore, ErrItemRequired, NoCart, <<>>, FALSE)
     ELSE IF LessThan(quantity, 1)
       THEN Result(table, rstore, ErrQuantity, NoCart, <<>>, FALSE)
     ELSE IF env.storeFail = "getItem"
       THEN Result(table, rstore, StoreError, NoCart, <<"Get">>, FALSE)
     ELSE IF ~itemResult.exists
       THEN Result(table, rstore, ErrNotFound, NoCart, <<"Get">>, FALSE)
     ELSE IF storeId = Null
       THEN Result(table, rstore, ErrNoStorefront, NoCart, <<"Get">>, FALSE)
     ELSE IF env.storeFail = "query"
       THEN Result(table, rstore, StoreError, NoCart, <<"Get", "Query">>, FALSE)
     ELSE IF CartConflict(existingCart, storeId)
       THEN Result(table, rstore, ErrConflict, NoCart, <<"Get", "Query">>, FALSE)
     ELSE IF env.storeFail = "put"
       THEN Result(table, rstore, StoreError, NoCart, <<"Get", "Query", "Put">>, FALSE)
     ELSE IF env.storeFail = "refetch"
       THEN Result(table1, rstore, StoreError, NoCart, c4, FALSE)
     ELSE IF env.storeFail = "batchGet"
       THEN Result(table1, wr.rstore, StoreError, NoCart,
                   c4 \o wr.calls \o <<"BatchGet">>, wr.err)
     ELSE Result(table1, wr.rstore, Ok, enrichCart(freshCart),
                 c4 \o wr.calls \o EnrichCalls(freshCart), wr.err)

\* mutant: an item without a storefront is put like any other item
addItemToCart_NoStorefrontCheck(table, rstore, client, userId, itemId, quantity, env) ==
  LET itemResult == ItemsTable(itemId)
      storeId == itemResult.storeId
      existingCart == fetchCartFromDynamo(table, userId)
      updatedItem == [userId |-> userId, itemId |-> itemId, storeId |-> storeId,
                      quantity |-> quantity]
      table1 == PutCommand(table, updatedItem)
      freshCart == fetchCartFromDynamo(table1, userId)
      wr == RefreshAfterAdd(rstore, client, freshCart, "set" \in env.cacheFail)
      c4 == <<"Get", "Query", "Put", "Query">>
  IN IF itemId = NoItemId
       THEN Result(table, rstore, ErrItemRequired, NoCart, <<>>, FALSE)
     ELSE IF LessThan(quantity, 1)
       THEN Result(table, rstore, ErrQuantity, NoCart, <<>>, FALSE)
     ELSE IF env.storeFail = "getItem"
       THEN Result(table, rstore, StoreError, NoCart, <<"Get">>, FALSE)
     ELSE IF ~itemResult.exists
       THEN Result(table, rstore, ErrNotFound, NoCart, <<"Get">>, FALSE)
     ELSE IF env.storeFail = "query"
       THEN Result(table, rstore, StoreError, NoCart, <<"Get", "Query">>, FALSE)
     ELSE IF CartConflict(existingCart, storeId)
       THEN Result(table, rstore, ErrConflict, NoCart, <<"Get", "Query">>, FALSE)
     ELSE IF env.storeFail = "put"
       THEN Result(table, rstore, StoreError, NoCart, <<"Get", "Query", "Put">>, FALSE)
     ELSE IF env.storeFail = "refetch"
       THEN Result(table1, rstore, StoreError, NoCart, c4, FALSE)
     ELSE IF env.storeFail = "batchGet"
       THEN Result(table1, wr.rstore, StoreError, NoCart,
                   c4 \o wr.calls \o <<"BatchGet">>, wr.err)
     ELSE Result(table1, wr.rstore, Ok, enrichCart(freshCart),
                 c4 \o wr.calls \o EnrichCalls(freshCart), wr.err)

addItemToCart(table, rstore, client, userId, itemId, quantity, env) ==
  LET itemResult == ItemsTable(itemId)
      storeId == itemResult.storeId
      existingCart == fetchCartFromDynamo(table, userId)
      updatedItem == [userId |-> userId, itemId |-> itemId, storeId |-> storeId,
                      quantity |-> quantity]
      table1 == PutCommand(table, updatedItem)
      freshCart == fetchCartFromDynamo(table1, userId)
      wr == RefreshAfterAdd(rstore, client, freshCart, "set" \in env.cacheFail)
      c4 == <<"Get", "Query", "Put", "Query">>
  IN IF itemId = NoItemId
       THEN Result(table, rstore, ErrItemRequired, NoCart, <<>>, FALSE)
     ELSE IF LessThan(quantity, 1)
       THEN Result(table, rstore, ErrQuantity, NoCart, <<>>, FALSE)
     ELSE IF env.storeFail = "getItem"
       THEN Result(table, rstore, StoreError, NoCart, <<"Get">>, FALSE)
     ELSE IF ~itemResult.exists
       THEN Result(table, rstore, ErrNotFound, NoCart, <<"Get">>, FALSE)
     ELSE IF storeId = Null
       THEN Result(table, rstore, ErrNoStorefront, NoCart, <<"Get">>, FALSE)
     ELSE IF env.storeFail = "query"
       THEN Result(table, rstore, StoreError, NoCart, <<"Get", "Query">>, FALSE)
     ELSE IF CartConflict(existingCart, storeId)
       THEN Result(table, rstore, ErrConflict, NoCart, <<"Get", "Query">>, FALSE)
     ELSE IF env.storeFail = "put"
       THEN Result(table, rstore, StoreError, NoCart, <<"Get", "Query", "Put">>, FALSE)
     ELSE IF env.storeFail = "refetch"
       THEN Result(table1, rstore, StoreError, NoCart, c4, FALSE)
     ELSE IF env.storeFail = "batchGet"
       THEN Result(table1, wr.rstore, StoreError, NoCart,
                   c4 \o wr.calls \o <<"BatchGet">>, wr.err)
     ELSE Result(table1, wr.rstore, Ok, enrichCart(freshCart),
                 c4 \o wr.calls \o EnrichCalls(freshCart), wr.err)

(* -------------------------- removeItemFromCart ------------------------- *)
\* mutant: a delete of a row that is not there is reported as an error
removeItemFromCart_MissingRowRaises(table, rstore, client, userId, itemId, env) ==
  LET table1 == DeleteCommand(table, userId, itemId)
      freshCart == fetchCartFromDynamo(table1, userId)
      wr == writeCartToCache(rstore, client, freshCart, "set" \in env.cacheFail)
      c2 == <<"Delete", "Query">>
  IN IF itemId = NoItemId
       THEN Result(table, rstore, ErrItemRequired, NoCart, <<>>, FALSE)
     ELSE IF env.storeFail = "delete" \/ table1 = table
       THEN Result(table, rstore, StoreError, NoCart, <<"Delete">>, FALSE)
     ELSE IF env.storeFail = "refetch"
       THEN Result(table1, rstore, StoreError, NoCart, c2, FALSE)
     ELSE IF env.storeFail = "batchGet" /\ Len(freshCart.items) > 0
       THEN Result(table1, wr.rstore, StoreError, NoCart,
                   c2 \o wr.calls \o <<"BatchGet">>, wr.err)
     ELSE Result(table1, wr.rstore, Ok, enrichCart(freshCart),
                 c2 \o wr.calls \o EnrichCalls(freshCart), wr.err)

removeItemFromCart(table, rstore, client, userId, itemId, env) ==
  LET table1 == DeleteCommand(table, userId, itemId)
      freshCart == fetchCartFromDynamo(table1, userId)
      wr == writeCartToCache(rstore, client, freshCart, "set" \in env.cacheFail)
      c2 == <<"Delete", "Query">>
  IN IF itemId = NoItemId
       THEN Result(table, rstore, ErrItemRequired, NoCart, <<>>, FALSE)
     ELSE IF env.storeFail = "delete"
       THEN Result(table, rstore, StoreError, NoCart, <<"Delete">>, FALSE)
     ELSE IF env.storeFail = "refetch"
       THEN Result(table1, rstore, StoreError, NoCart, c2, FALSE)
     ELSE IF env.storeFail = "batchGet" /\ Len(freshCart.items) > 0
       THEN Result(table1, wr.rstore, StoreError, NoCart,
                   c2 \o wr.calls \o <<"BatchGet">>, wr.err)
     ELSE Result(table1, wr.rstore, Ok, enrichCart(freshCart),
                 c2 \o wr.calls \o EnrichCalls(freshCart), wr.err)

(* -------------------------- updateItemQuantity ------------------------- *)
\* mutant: a quantity of 1 or more is set only on a line the cart holds
updateItemQuantity_ExistingOnly(table, rstore, client, userId, itemId, quantity, env) ==
  IF LessThan(quantity, 1)
    THEN removeItemFromCart(table, rstore, client, userId, itemId, env)
  ELSE IF \E row \in table : row.userId = userId /\ row.itemId = itemId
    THEN addItemToCart(table, rstore, client, userId, itemId, quantity, env)
  ELSE Result(table, rstore, "Item not found", NoCart, <<>>, FALSE)

\* mutant: a negative quantity is refused like addItemToCart refuses it
updateItemQuantity_NegativeRefused(table, rstore, client, userId, itemId, quantity, env) ==
  IF quantity \in NegativeQuantities
    THEN Result(table, rstore, ErrQuantity, NoCart, <<>>, FALSE)
  ELSE IF LessThan(quantity, 1)
    THEN removeItemFromCart(table, rstore, client, userId, itemId, env)
  ELSE addItemToCart(table, rstore, client, userId, itemId, quantity, env)

updateItemQuantity(table, rstore, client, userId, itemId, quantity, env) ==
  IF LessThan(quantity, 1)
    THEN removeItemFromCart(table, rstore, client, userId, itemId, env)
  ELSE addItemToCart(table, rstore, client, userId, itemId, quantity, env)

(* --------------------------- clearCartForUser -------------------------- *)
\* mutant: the chunk that is not full is left out
NumChunks_Floor(items) == Len(items) \div BatchSize

\* the chunks built by the loop `for (i = 0; i < items.length; i += 25)`
NumChunks(items) == (Len(items) + BatchSize - 1) \div BatchSize

\* mutant: a chunk starts at the last line of the chunk before it
Chunk_Overlapping(items, c) ==
  SubSeq(items, IF c = 1 THEN 1 ELSE (c - 1) * BatchSize,
         IF c * BatchSize < Len(items) THEN c * BatchSize ELSE Len(items))

\* items.slice(i, i + 25) for i = 25 * (c - 1)
Chunk(items, c) ==
  SubSeq(items, (c - 1) * BatchSize + 1,
         IF c * BatchSize < Len(items) THEN c * BatchSize ELSE Len(items))

\* the table after the first n BatchWrite requests have been applied
RECURSIVE DeleteChunks(_, _, _, _)
DeleteChunks(table, userId, items, n) ==
  IF n = 0 THEN table
  ELSE BatchWriteCommand(DeleteChunks(table, userId, items, n - 1), userId,
                         Chunk(items, n))

\* mutant: the snapshot is invalidated before the rows are deleted
clearCartForUser_CacheFirst(table, rstore, client, userId, env) ==
  LET existingCart == fetchCartFromDynamo(table, userId)
      items == existingCart.items
      n == NumChunks(items)
      failAt == IF env.failChunk \in 1..n THEN env.failChunk ELSE 0
      emptyCart == [userId |-> userId, storeId |-> Null, items |-> <<>>]
      table1 == DeleteChunks(table, userId, items, n)
      cl == clearCartCache(rstore, client, userId, "del" \in env.cacheFail)
      wr == writeCartToCache(cl.rstore, client, emptyCart, "set" \in env.cacheFail)
  IN IF env.storeFail = "query"
       THEN Result(table, rstore, StoreError, NoCart, <<"Query">>, FALSE)
     ELSE IF failAt > 0
       THEN Result(DeleteChunks(table, userId, items, failAt - 1), cl.rstore,
                   StoreError, NoCart,
                   <<"Query">> \o cl.calls \o [k \in 1..failAt |-> "BatchWrite"], cl.err)
     ELSE Result(table1, wr.rstore, Ok, enrichCart(emptyCart),
                 <<"Query">> \o cl.calls \o [k \in 1..n |-> "BatchWrite"] \o wr.calls,
                 cl.err \/ wr.err)

\* mutant: the empty cart is the fetched cart without its lines
clearCartForUser_KeepsStore(table, rstore, client, userId, env) ==
  LET existingCart == fetchCartFromDynamo(table, userId)
      items == existingCart.items
      n == NumChunks(items)
      failAt == IF env.failChunk \in 1..n THEN env.failChunk ELSE 0
      emptyCart == [existingCart EXCEPT !.items = <<>>]
      table1 == DeleteChunks(table, userId, items, n)
      cl == clearCartCache(rstore, client, userId, "del" \in env.cacheFail)
      wr == writeCartToCache(cl.rstore, client, emptyCart, "set" \in env.cacheFail)
  IN IF env.storeFail = "query"
       THEN Result(table, rstore, StoreError, NoCart, <<"Query">>, FALSE)
     ELSE IF failAt > 0
       THEN Result(DeleteChunks(table, userId, items, failAt - 1), rstore,
                   StoreError, NoCart,
                   <<"Query">> \o [k \in 1..failAt |-> "BatchWrite"], FALSE)
     ELSE Result(table1, wr.rstore, Ok, enrichCart(emptyCart),
                 <<"Query">> \o [k \in 1..n |-> "BatchWrite"] \o cl.calls \o wr.calls,
                 cl.err \/ wr.err)

clearCartForUser(table, rstore, client, userId, env) ==
  LET existingCart == fetchCartFromDynamo(table, userId)
      items == existingCart.items
      n == NumChunks(items)
      failAt == IF env.failChunk \in 1..n THEN env.failChunk ELSE 0
      emptyCart == [userId |-> userId, storeId |-> Null, items |-> <<>>]
      table1 == DeleteChunks(table, userId, items, n)
      cl == clearCartCache(rstore, client, userId, "del" \in env.cacheFail)
      wr == writeCartToCache(cl.rstore, client, emptyCart, "set" \in env.cacheFail)
  IN IF env.storeFail = "query"
       THEN Result(table, rstore, StoreError, NoCart, <<"Query">>, FALSE)
     ELSE IF failAt > 0
       THEN Result(DeleteChunks(table, userId, items, failAt - 1), rstore,
                   StoreError, NoCart,
                   <<"Query">> \o [k \in 1..failAt |-> "BatchWrite"], FALSE)
     ELSE Result(table1, wr.rstore, Ok, enrichCart(emptyCart),
                 <<"Query">> \o [k \in 1..n |-> "BatchWrite"] \o cl.calls \o wr.calls,
                 cl.err \/ wr.err)

(* ===================== the single-row cart routes ====================== *)
\* The cart routes of the Lambda bundle keep the cart of a user in one
\* CartTable row {userId, items} (no CART_SORT_KEY) and cache that row.
\* the value of CART_TTL_SECONDS when the variable is not set
DefaultCartTtl == 604800

\* a quantity that the request body does not carry
Undefined == 0 - 2

VARIABLES
  CACHE_TTL_SECONDS   \* the TTL of the cart routes; 0 disables their cache writes

cacheKeyForCart(userId) == "cart:" \o userId

NoRow == [userId |-> "", items |-> <<>>]

JSONStringifyRow(cart) ==
  <<cart.userId,
    [k \in 1..Len(cart.items) |-> <<cart.items[k].itemId, cart.items[k].quantity>>]>>

JSONParseRow(s) ==
  [userId |-> s[1],
   items |-> [k \in 1..Len(s[2]) |-> [itemId |-> s[2][k][1], quantity |-> s[2][k][2]]]]

\* table: userId -> <<>> (no row) or <<row>>
loadCartFromDatabase(table, userId) ==
  IF table[userId] = <<>> THEN [userId |-> userId, items |-> <<>>]
  ELSE table[userId][1]

saveCartToDatabase(table, userId, items) ==
  [table EXCEPT ![userId] = <<[userId |-> userId, items |-> items]>>]

deleteCartFromDatabase(table, userId) == [table EXCEPT ![userId] = <<>>]

loadCartFromCache(rcache, client, userId, fails) ==
  IF client = Null THEN [cart |-> <<>>, calls |-> <<>>, err |-> FALSE]
  ELSE IF fails THEN [cart |-> <<>>, calls |-> <<"redis.get">>, err |-> TRUE]
  ELSE [cart |-> IF rcache[cacheKeyForCart(userId)] = <<>> THEN <<>>
                 ELSE <<JSONParseRow(rcache[cacheKeyForCart(userId)][1])>>,
        calls |-> <<"redis.get">>, err |-> FALSE]

\* mutant: the TTL of 0 is passed on to redis.set like any other TTL
saveCartToCache_NoSwitch(rcache, client, userId, cart, fails) ==
  IF client = Null THEN [rcache |-> rcache, calls |-> <<>>, err |-> FALSE]
  ELSE IF fails THEN [rcache |-> rcache, calls |-> <<"redis.set">>, err |-> TRUE]
  ELSE [rcache |-> [rcache EXCEPT ![cacheKeyForCart(userId)] = <<JSONStringifyRow(cart)>>],
        calls |-> <<"redis.set">>, err |-> FALSE]

saveCartToCache(rcache, client, userId, cart, fails) ==
  IF CACHE_TTL_SECONDS = 0 THEN [rcache |-> rcache, calls |-> <<>>, err |-> FALSE]
  ELSE IF client = Null THEN [rcache |-> rcache, calls |-> <<>>, err |-> FALSE]
  ELSE IF fails THEN [rcache |-> rcache, calls |-> <<"redis.set">>, err |-> TRUE]
  ELSE [rcache |-> [rcache EXCEPT ![cacheKeyForCart(userId)] = <<JSONStringifyRow(cart)>>],
        calls |-> <<"redis.set">>, err |-> FALSE]

deleteCartFromCache(rcache, client, userId, fails) ==
  IF client = Null THEN [rcache |-> rcache, calls |-> <<>>, err |-> FALSE]
  ELSE IF fails THEN [rcache |-> rcache, calls |-> <<"redis.del">>, err |-> TRUE]
  ELSE [rcache |-> [rcache EXCEPT ![cacheKeyForCart(userId)] = <<>>],
        calls |-> <<"redis.del">>, err |-> FALSE]

\* what a route leaves behind and answers: res.status(status).json(...)
Response(table, rcache, status, error, cart, calls, cacheErr) ==
  [table |-> table, rcache |-> rcache, status |-> status, error |-> error,
   cart |-> cart, calls |-> calls, cacheErr |-> cacheErr]

\* items.findIndex((item) => item.itemId === itemId), 0 when there is none
FindIndex(items, itemId) ==
  IF \E k \in 1..Len(items) : items[k].itemId = itemId
    THEN CHOOSE k \in 1..Len(items) :
           /\ items[k].itemId = itemId
           /\ \A j \in 1..(k - 1) : items[j].itemId # itemId
  ELSE 0

\* items.filter((item) => item.itemId !== itemId)
RECURSIVE FilterOut(_, _)
FilterOut(items, itemId) ==
  IF items = <<>> THEN <<>>
  ELSE IF Head(items).itemId = itemId THEN FilterOut(Tail(items), itemId)
  ELSE <<Head(items)>> \o FilterOut(Tail(items), itemId)

\* Number.isFinite(Number(quantity))
IsFiniteNumber(quantity) == quantity \notin {NonNumeric, Undefined}

\* GET /cart
routerGet(table, rcache, client, userId, env) ==
  LET rd == loadCartFromCache(rcache, client, userId, "get" \in env.cacheFail)
      cart == loadCartFromDatabase(table, userId)
      wr == saveCartToCache(rcache, client, userId, cart, "set" \in env.cacheFail)
  IN IF rd.cart # <<>>
       THEN Response(table, rcache, 200, Ok, rd.cart[1], rd.calls, rd.err)
     ELSE IF env.storeFail = "get"
       THEN Response(table, rcache, 500, "Failed to get cart", NoRow,
                     rd.calls \o <<"Get">>, rd.err)
     ELSE Response(table, wr.rcache, 200, Ok, cart,
                   rd.calls \o <<"Get">> \o wr.calls, rd.err \/ wr.err)

\* mutant: the quantity of the body is stored as it was given
routerPostItem_RawQuantity(table, rcache, client, userId, itemId, quantity, env) ==
  LET currentCart == loadCartFromDatabase(table, userId)
      existingIndex == FindIndex(currentCart.items, itemId)
      newItem == [itemId |-> itemId, quantity |-> quantity]
      items == IF existingIndex > 0
                 THEN [currentCart.items EXCEPT ![existingIndex] = newItem]
               ELSE Append(currentCart.items, newItem)
      table1 == saveCartToDatabase(table, userId, items)
      updatedCart == [userId |-> userId, items |-> items]
      wr == saveCartToCache(rcache, client, userId, updatedCart, "set" \in env.cacheFail)
  IN IF itemId = NoItemId
       THEN Response(table, rcache, 400, ErrItemRequired, NoRow, <<>>, FALSE)
     ELSE IF env.storeFail = "get"
       THEN Response(table, rcache, 500, "Failed to add to cart", NoRow, <<"Get">>, FALSE)
     ELSE IF env.storeFail = "put"
       THEN Response(table, rcache, 500, "Failed to add to cart", NoRow,
                     <<"Get", "Put">>, FALSE)
     ELSE Response(table1, wr.rcache, 200, Ok, updatedCart,
                   <<"Get", "Put">> \o wr.calls, wr.err)

\* POST /cart/item
routerPostItem(table, rcache, client, userId, itemId, quantity, env) ==
  LET safeQuantity == IF IsFiniteNumber(quantity) /\ quantity > 0 THEN quantity ELSE 1
      currentCart == loadCartFromDatabase(table, userId)
      existingIndex == FindIndex(currentCart.items, itemId)
      newItem == [itemId |-> itemId, quantity |-> safeQuantity]
      items == IF existingIndex > 0
                 THEN [currentCart.items EXCEPT ![existingIndex] = newItem]
               ELSE Append(currentCart.items, newItem)
      table1 == saveCartToDatabase(table, userId, items)
      updatedCart == [userId |-> userId, items |-> items]
      wr == saveCartToCache(rcache, client, userId, updatedCart, "set" \in env.cacheFail)
  IN IF itemId = NoItemId
       THEN Response(table, rcache, 400, ErrItemRequired, NoRow, <<>>, FALSE)
     ELSE IF env.storeFail = "get"
       THEN Response(table, rcache, 500, "Failed to add to cart", NoRow, <<"Get">>, FALSE)
     ELSE IF env.storeFail = "put"
       THEN Response(table, rcache, 500, "Failed to add to cart", NoRow,
                     <<"Get", "Put">>, FALSE)
     ELSE Response(table1, wr.rcache, 200, Ok, updatedCart,
                   <<"Get", "Put">> \o wr.calls, wr.err)

\* mutant: an item that is not in the cart is appended instead of refused
routerPatchItem_Upsert(table, rcache, client, userId, itemId, quantity, env) ==
  LET currentCart == loadCartFromDatabase(table, userId)
      existingIndex == FindIndex(currentCart.items, itemId)
      updatedItem == IF quantity = Undefined /\ existingIndex > 0
                       THEN currentCart.items[existingIndex]
                     ELSE [itemId |-> itemId,
                           quantity |-> IF quantity = Undefined THEN 1 ELSE quantity]
      items == IF existingIndex > 0
                 THEN [currentCart.items EXCEPT ![existingIndex] = updatedItem]
               ELSE Append(currentCart.items, updatedItem)
      table1 == saveCartToDatabase(table, userId, items)
      updatedCart == [userId |-> userId, items |-> items]
      wr == saveCartToCache(rcache, client, userId, updatedCart, "set" \in env.cacheFail)
  IN IF itemId = NoItemId
       THEN Response(table, rcache, 400, ErrItemRequired, NoRow, <<>>, FALSE)
     ELSE IF env.storeFail = "get"
       THEN Response(table, rcache, 500, "Failed to update cart", NoRow, <<"Get">>, FALSE)
     ELSE IF quantity # Undefined /\ (~IsFiniteNumber(quantity) \/ quantity < 1)
       THEN Response(table, rcache, 400, "Quantity must be a positive number", NoRow,
                     <<"Get">>, FALSE)
     ELSE IF env.storeFail = "put"
       THEN Response(table, rcache, 500, "Failed to update cart", NoRow,
                     <<"Get", "Put">>, FALSE)
     ELSE Response(table1, wr.rcache, 200, Ok, updatedCart,
                   <<"Get", "Put">> \o wr.calls, wr.err)

\* PATCH /cart/item
routerPatchItem(table, rcache, client, userId, itemId, quantity, env) ==
  LET currentCart == loadCartFromDatabase(table, userId)
      existingIndex == FindIndex(currentCart.items, itemId)
      updatedItem == IF quantity = Undefined THEN currentCart.items[existingIndex]
                     ELSE [itemId |-> itemId, quantity |-> quantity]
      items == [currentCart.items EXCEPT ![existingIndex] = updatedItem]
      table1 == saveCartToDatabase(table, userId, items)
      updatedCart == [userId |-> userId, items |-> items]
      wr == saveCartToCache(rcache, client, userId, updatedCart, "set" \in env.cacheFail)
  IN IF itemId = NoItemId
       THEN Response(table, rcache, 400, ErrItemRequired, NoRow, <<>>, FALSE)
     ELSE IF env.storeFail = "get"
       THEN Response(table, rcache, 500, "Failed to update cart", NoRow, <<"Get">>, FALSE)
     ELSE IF existingIndex = 0
       THEN Response(table, rcache, 404, "Item not found in cart", NoRow, <<"Get">>, FALSE)
     ELSE IF quantity # Undefined /\ (~IsFiniteNumber(quantity) \/ quantity < 1)
       THEN Response(table, rcache, 400, "Quantity must be a positive number", NoRow,
                     <<"Get">>, FALSE)
     ELSE IF env.storeFail = "put"
       THEN Response(table, rcache, 500, "Failed to update cart", NoRow,
                     <<"Get", "Put">>, FALSE)
     ELSE Response(table1, wr.rcache, 200, Ok, updatedCart,
                   <<"Get", "Put">> \o wr.calls, wr.err)

\* DELETE /cart/item
routerDeleteItem(table, rcache, client, userId, itemId, env) ==
  LET currentCart == loadCartFromDatabase(table, userId)
      filteredItems == FilterOut(currentCart.items, itemId)
      table1 == saveCartToDatabase(table, userId, filteredItems)
      updatedCart == [userId |-> userId, items |-> filteredItems]
      wr == saveCartToCache(rcache, client, userId, updatedCart, "set" \in env.cacheFail)
  IN IF itemId = NoItemId
       THEN Response(table, rcache, 400, ErrItemRequired, NoRow, <<>>, FALSE)
     ELSE IF env.storeFail = "get"
       THEN Response(table, rcache, 500, "Failed to remove from cart", NoRow,
                     <<"Get">>, FALSE)
     ELSE IF env.storeFail = "put"
       THEN Response(table, rcache, 500, "Failed to remove from cart", NoRow,
                     <<"Get", "Put">>, FALSE)
     ELSE Response(table1, wr.rcache, 200, Ok, updatedCart,
                   <<"Get", "Put">> \o wr.calls, wr.err)

\* DELETE /cart
routerDelete(table, rcache, client, userId, env) ==
  LET table1 == deleteCartFromDatabase(table, userId)
      dl == deleteCartFromCache(rcache, client, userId, "del" \in env.cacheFail)
  IN IF env.storeFail = "delete"
       THEN Response(table, rcache, 500, "Failed to clear cart", NoRow, <<"Delete">>, FALSE)
     ELSE Response(table1, dl.rcache, 200, Ok, [userId |-> userId, items |-> <<>>],
                   <<"Delete">> \o dl.calls, dl.err)

(* ======================= sequential specification ====================== *)
VARIABLES
  cartTable,    \* CartTable: set of rows [userId, itemId, storeId, quantity]
  redisStore,   \* Redis: key -> <<>> (absent) or <<serialized snapshot>>
  redis,        \* the module-level client handle: "client" or Null
  last,         \* the latest completed cart-service call and its result
  prev,         \* the call completed before it (operation and outcome)
  cacheFailed,  \* some cache command has failed, or there is no client
  downTable,    \* CartTable of the companion run in which every cache command fails
  downLast,     \* the latest call and result of the companion run
  pc,           \* per in-flight addItemToCart call: the await it is suspended at
  loc,          \* per in-flight call: its arguments and local variables
  lastPut,      \* the call whose Put reached the cart table last
  lastSet,      \* the call whose redis.set reached the cache last
  mounted,      \* the cart implementation the process serves
  rowTable,     \* CartTable of the cart routes: userId -> <<>> or <<row>>
  rowCache,     \* Redis as the cart routes use it: key -> <<>> or <<snapshot>>
  rowLast,      \* the latest request the cart routes answered
  redisClient,  \* the client the Redis helper holds, or NoClient
  connectPromise, \* the connection attempt the helper holds, or NoClient
  isOpen,       \* the clients whose isOpen is true
  promise,      \* per connection attempt: its state and the value it settled with
  created,      \* the number of clients built so far
  ended,        \* the clients that have emitted "end"
  awaiting,     \* per caller: the connection attempt it is suspended on, or NoClient
  got           \* per caller: what its latest getRedisClient call returned

\* the configuration of the process: it does not change during a run
envVars == <<redis, mounted, CART_CACHE_TTL_SECONDS, CACHE_TTL_SECONDS>>
seqVars == <<cartTable, redisStore, envVars, catalog, last, prev, cacheFailed>>
pairVars == <<downTable, downLast>>
concVars == <<pc, loc, lastPut, lastSet>>
rowVars == <<rowTable, rowCache, rowLast>>
helperVars == <<redisClient, connectPromise, isOpen, promise, created, ended, awaiting, got>>
vars == <<seqVars, pairVars, concVars, rowVars, helperVars>>

\* the in-flight calls of the concurrent specification
Procs == {"p1", "p2"}

NoLocals == [op |-> "none", userId |-> "", itemId |-> 0, quantity |-> 0,
             storeId |-> Null, sawEmpty |-> FALSE, freshCart |-> NoCart,
             chunk |-> 0, items |-> <<>>, error |-> Ok, cart |-> NoCart]

NoCall == [op |-> "none", userId |-> "", itemId |-> 0, quantity |-> 0,
           error |-> Ok, cart |-> NoCart, calls |-> <<>>]

NoRequest == [op |-> "none", userId |-> "", itemId |-> 0, quantity |-> 0,
              status |-> 0, error |-> Ok, cart |-> NoRow, calls |-> <<>>]

(* ---------------------- the shared Redis client ------------------------ *)
\* getRedisClient of the two Redis helpers.  The cart service loads the
\* synchronous helper (ioredis), the cart routes await the asynchronous one
\* (node-redis), whose callers can be suspended on a connection attempt.
\* Clients are numbered in the order in which they are built.
Clients == 1..MaxClients

\* `redisClient = null`, `connectPromise = null`
NoClient == 0

Unbuilt == [state |-> "unbuilt", value |-> NoClient]
NothingYet == [returned |-> FALSE, client |-> NoClient]
Returned(client) == [returned |-> TRUE, client |-> client]

\* the callers suspended on a connection attempt continue with its value
Resume(attempt, value) ==
  /\ got' = [p \in Procs |-> IF awaiting[p] = attempt THEN Returned(value) ELSE got[p]]
  /\ awaiting' = [p \in Procs |-> IF awaiting[p] = attempt THEN NoClient ELSE awaiting[p]]

\* mutant: a call never joins the attempt in flight
SharesAttempt_Never(promiseHeld) == FALSE

\* `if (connectPromise) return connectPromise`
SharesAttempt(promiseHeld) == promiseHeld # NoClient

\* utils/redis.js: the whole call is synchronous
GetClientSync(p) ==
  /\ mounted = "cartService"
  /\ IF redisClient # NoClient
       THEN /\ got' = [got EXCEPT ![p] = Returned(redisClient)]
            /\ UNCHANGED <<redisClient, created, isOpen>>
     ELSE IF redis = Null   \* REDIS_HOST is not set
       THEN /\ got' = [got EXCEPT ![p] = Returned(NoClient)]
            /\ UNCHANGED <<redisClient, created, isOpen>>
     ELSE /\ created < MaxClients
          /\ created' = created + 1
          /\ redisClient' = created + 1
          /\ isOpen' = isOpen \cup {created + 1}
          /\ got' = [got EXCEPT ![p] = Returned(created + 1)]
  /\ UNCHANGED <<seqVars, pairVars, concVars, rowVars, connectPromise, promise, ended, awaiting>>

\* the asynchronous helper up to its first await.  Whether isOpen is already
\* true while the connection is being set up depends on the client library.
GetClient(p) ==
  /\ mounted = "cartRoutes"
  /\ awaiting[p] = NoClient
  /\ IF redisClient # NoClient /\ redisClient \in isOpen
       THEN /\ got' = [got EXCEPT ![p] = Returned(redisClient)]
            /\ UNCHANGED <<redisClient, connectPromise, isOpen, promise, created, awaiting>>
     ELSE IF SharesAttempt(connectPromise)
       THEN /\ IF promise[connectPromise].state = "pending"
                 THEN /\ awaiting' = [awaiting EXCEPT ![p] = connectPromise]
                      /\ got' = [got EXCEPT ![p] = NothingYet]
               ELSE /\ got' = [got EXCEPT ![p] = Returned(promise[connectPromise].value)]
                    /\ UNCHANGED awaiting
            /\ UNCHANGED <<redisClient, connectPromise, isOpen, promise, created>>
     ELSE /\ created < MaxClients
          /\ created' = created + 1
          /\ redisClient' = created + 1
          /\ connectPromise' = created + 1
          /\ promise' = [promise EXCEPT ![created + 1] =
                           [state |-> "pending", value |-> NoClient]]
          /\ \E openAtOnce \in BOOLEAN :
               isOpen' = IF openAtOnce THEN isOpen \cup {created + 1} ELSE isOpen
          /\ awaiting' = [awaiting EXCEPT ![p] = created + 1]
          /\ got' = [got EXCEPT ![p] = NothingYet]
  /\ UNCHANGED <<seqVars, pairVars, concVars, rowVars, ended>>

\* connect() succeeds: `.then(() => redisClient)`
ConnectResolves(attempt) ==
  /\ promise[attempt].state = "pending"
  /\ promise' = [promise EXCEPT ![attempt] = [state |-> "settled", value |-> redisClient]]
  /\ isOpen' = isOpen \cup {attempt}
  /\ Resume(attempt, redisClient)
  /\ UNCHANGED <<seqVars, pairVars, concVars, rowVars, redisClient, connectPromise, created, ended>>

\* mutant: the catch handler answers null and keeps both references
ConnectRejects_KeepsHandle(attempt) ==
  /\ promise[attempt].state = "pending"
  /\ promise' = [promise EXCEPT ![attempt] = [state |-> "settled", value |-> NoClient]]
  /\ isOpen' = isOpen \ {attempt}
  /\ Resume(attempt, NoClient)
  /\ UNCHANGED <<seqVars, pairVars, concVars, rowVars, redisClient, connectPromise, created, ended>>

\* connect() fails: the catch handler drops both references
ConnectRejects(attempt) ==
  /\ promise[attempt].state = "pending"
  /\ promise' = [promise EXCEPT ![attempt] = [state |-> "settled", value |-> NoClient]]
  /\ isOpen' = isOpen \ {attempt}
  /\ redisClient' = NoClient
  /\ connectPromise' = NoClient
  /\ Resume(attempt, NoClient)
  /\ UNCHANGED <<seqVars, pairVars, concVars, rowVars, created, ended>>

\* a client closes and emits "end": its handler (lines 46-49) resets both
\* references, whatever they refer to.  The client is one that was connected,
\* or one whose connect() failed and that the client library tears down
\* later, after the catch handler has dropped it; a client ends once.
End(client) ==
  /\ mounted = "cartRoutes"
  /\ client \notin ended
  /\ promise[client].state = "settled"
  /\ client \in isOpen \/ promise[client].value = NoClient
  /\ ended' = ended \cup {client}
  /\ isOpen' = isOpen \ {client}
  /\ redisClient' = NoClient
  /\ connectPromise' = NoClient
  /\ UNCHANGED <<seqVars, pairVars, concVars, rowVars, promise, created, awaiting, got>>

NextHelper ==
  \/ \E p \in Procs : GetClientSync(p)
  \/ \E p \in Procs : GetClient(p)
  \/ \E a \in Clients : ConnectResolves(a)
  \/ \E a \in Clients : ConnectRejects(a)
  \/ \E c \in Clients : End(c)

\* the Redis helper has just been loaded: `let redisClient`, `let connectPromise`
InitHelper ==
  /\ redisClient = NoClient
  /\ connectPromise = NoClient
  /\ isOpen = {}
  /\ promise = [a \in Clients |-> Unbuilt]
  /\ created = 0
  /\ ended = {}
  /\ awaiting = [p \in Procs |-> NoClient]
  /\ got = [p \in Procs |-> NothingYet]

\* no call has been made yet
InitHistory ==
  /\ last = NoCall
  /\ prev = [op |-> "none", ok |-> TRUE]
  /\ downTable = {}
  /\ downLast = NoCall
  /\ pc = [p \in Procs |-> "idle"]
  /\ loc = [p \in Procs |-> NoLocals]
  /\ lastPut = "none"
  /\ lastSet = "none"
  /\ rowLast = NoRequest
  /\ InitHelper

\* the catalog as listed and the TTLs of an environment that sets neither
InitDefaults ==
  /\ catalog = [i \in ListedItems |-> InitialItemsTable(i)]
  /\ CART_CACHE_TTL_SECONDS = DefaultCartCacheTtl
  /\ CACHE_TTL_SECONDS = DefaultCartTtl

\* the tables and the cache of the cart routes hold nothing
InitRoutesEmpty ==
  /\ rowTable = [u \in Users |-> <<>>]
  /\ rowCache = [k \in CacheKeys |-> <<>>]

InitSeq ==
  /\ cartTable = {}
  /\ redisStore = [k \in CacheKeys |-> <<>>]
  /\ redis \in {"client", Null}
  /\ cacheFailed = (redis = Null)
  /\ mounted = "cartService"
  /\ InitRoutesEmpty
  /\ InitDefaults
  /\ InitHistory

\* the faults one call can meet: cache commands that fail, or one store
\* command that fails (at most one collaborator misbehaves during a call)
OneFault(cacheCalls, storeCalls, chunks) ==
  {f \in [cacheFail : SUBSET cacheCalls, storeFail : storeCalls \cup {"none"},
          failChunk : chunks \cup {0}] :
     Cardinality({1 : x \in {0} \ {IF f.cacheFail = {} THEN 0 ELSE 1}}
                   \cup {2 : x \in {0} \ {IF f.storeFail = "none" THEN 0 ELSE 1}}
                   \cup {3 : x \in {0} \ {IF f.failChunk = 0 THEN 0 ELSE 1}}) <= 1}

GetFaults == OneFault({"get", "set"}, {"query", "batchGet"}, {})
AddFaults == OneFault({"set"}, {"getItem", "query", "put", "refetch", "batchGet"}, {})
RemoveFaults == OneFault({"set"}, {"delete", "refetch", "batchGet"}, {})
ClearFaults == OneFault({"del", "set"}, {"query"}, 1..NumChunks([k \in 1..MaxBulk |-> k]))

\* a call runs to completion before the next one starts; prev is a history
\* variable, kept only where a specification asks for it (track)
Complete(op, userId, itemId, quantity, res, track) ==
  /\ cartTable' = res.table
  /\ redisStore' = res.rstore
  /\ last' = [op |-> op, userId |-> userId, itemId |-> itemId,
              quantity |-> quantity, error |-> res.error, cart |-> res.cart,
              calls |-> res.calls]
  /\ prev' = IF track THEN [op |-> last.op, ok |-> (last.error = Ok)] ELSE prev
  /\ cacheFailed' = (cacheFailed \/ res.cacheErr)
  /\ UNCHANGED <<envVars, catalog, pairVars, concVars, rowVars, helperVars>>

GetCart(faults, track) ==
  \E u \in Users, env \in faults :
    Complete("get", u, 0, 0, getCartForUser(cartTable, redisStore, redis, u, env), track)

AddItem(items, faults, track) ==
  \E u \in Users, i \in items, q \in Quantities, env \in faults :
    Complete("add", u, i, q,
             addItemToCart(cartTable, redisStore, redis, u, i, q, env), track)

UpdateItem(items, faults, track) ==
  \E u \in Users, i \in items, q \in Quantities, env \in faults :
    Complete("update", u, i, q,
             updateItemQuantity(cartTable, redisStore, redis, u, i, q, env), track)

RemoveItem(items, faults, track) ==
  \E u \in Users, i \in items, env \in faults :
    Complete("remove", u, i, 0,
             removeItemFromCart(cartTable, redisStore, redis, u, i, env), track)

ClearCart(faults, track) ==
  \E u \in Users, env \in faults :
    Complete("clear", u, 0, 0,
             clearCartForUser(cartTable, redisStore, redis, u, env), track)

\* the snapshot of a user expires (TTL) or is evicted
ExpireCache ==
  \E u \in Users :
    /\ redisStore[cacheKey(u)] # <<>>
    /\ redisStore' = [redisStore EXCEPT ![cacheKey(u)] = <<>>]
    /\ UNCHANGED <<cartTable, envVars, catalog, last, prev, cacheFailed, pairVars, concVars, rowVars, helperVars>>

\* calls run one at a time and every collaborator answers
NextSeq ==
  \/ GetCart({NoFault}, TRUE)
  \/ AddItem(ItemIds, {NoFault}, TRUE)
  \/ UpdateItem(ItemIds, {NoFault}, TRUE)
  \/ RemoveItem(ItemIds, {NoFault}, TRUE)
  \/ ClearCart({NoFault}, TRUE)
  \/ ExpireCache

Spec == InitSeq /\ [][NextSeq]_vars

(* ---------------- sequential calls that can meet faults ---------------- *)
\* the itemIds of the catalog items that have a storefront
ValidItems == (1..MaxLines) \cup {ItemOther}

NextFaults ==
  \/ GetCart(GetFaults, FALSE)
  \/ AddItem(ValidItems, AddFaults, FALSE)
  \/ UpdateItem(ValidItems, AddFaults \cup RemoveFaults, FALSE)
  \/ RemoveItem(ValidItems, RemoveFaults, FALSE)
  \/ ClearCart(ClearFaults, FALSE)
  \/ ExpireCache

SpecFaults == InitSeq /\ [][NextFaults]_vars

(* --------- sequential calls with the quantity of the request body ------ *)
\* The routes hand the quantity of the JSON body to the service as it is,
\* so a call can carry a quantity that is not a number.  No fault.
AddItemRaw ==
  \E u \in Users, i \in ValidItems, q \in RawQuantities :
    Complete("add", u, i, q,
             addItemToCart(cartTable, redisStore, redis, u, i, q, NoFault), FALSE)

UpdateItemRaw ==
  \E u \in Users, i \in ValidItems \cup {NoItemId}, q \in RawQuantities :
    Complete("update", u, i, q,
             updateItemQuantity(cartTable, redisStore, redis, u, i, q, NoFault), FALSE)

NextRaw ==
  \/ GetCart({NoFault}, FALSE)
  \/ AddItemRaw
  \/ UpdateItemRaw
  \/ RemoveItem(ValidItems, {NoFault}, FALSE)
  \/ ClearCart({NoFault}, FALSE)
  \/ ExpireCache

SpecRaw == InitSeq /\ [][NextRaw]_vars

(* ------------- sequential calls while the catalog changes -------------- *)
\* DELETE /listings/:id removes the ItemsTable row of an item; the cart rows
\* that name the item stay.  No fault.
DeleteListing ==
  \E i \in ListedItems :
    /\ catalog[i].exists
    /\ catalog' = [catalog EXCEPT ![i] = InitialItemsTable(ItemUnknown)]
    /\ UNCHANGED <<cartTable, redisStore, envVars, last, prev, cacheFailed,
                   pairVars, concVars, rowVars, helperVars>>

NextCatalog ==
  \/ GetCart({NoFault}, FALSE)
  \/ AddItem(ValidItems, {NoFault}, FALSE)
  \/ UpdateItem(ValidItems, {NoFault}, FALSE)
  \/ RemoveItem(ValidItems, {NoFault}, FALSE)
  \/ ClearCart({NoFault}, FALSE)
  \/ ExpireCache
  \/ DeleteListing

SpecCatalog == InitSeq /\ [][NextCatalog]_vars

\* PUT /listings/:id gives a listed item another name and price
RelistedName == "sku v2"
Relisted(product) == [product EXCEPT !.name = RelistedName, !.price = product.price + 1]

UpdateListing ==
  \E i \in ListedItems :
    /\ catalog[i].exists
    /\ catalog[i].name # RelistedName
    /\ catalog' = [catalog EXCEPT ![i] = Relisted(catalog[i])]
    /\ last' = [NoCall EXCEPT !.op = "PUT /listings", !.itemId = i]
    /\ prev' = [op |-> last.op, ok |-> (last.error = Ok)]
    /\ UNCHANGED <<cartTable, redisStore, envVars, cacheFailed,
                   pairVars, concVars, rowVars, helperVars>>

\* reads and adds while listings are renamed and repriced
NextRelist ==
  \/ GetCart({NoFault}, TRUE)
  \/ AddItem(ValidItems, {NoFault}, TRUE)
  \/ UpdateItem(ValidItems, {NoFault}, TRUE)
  \/ ExpireCache
  \/ UpdateListing

SpecRelist == InitSeq /\ [][NextRelist]_vars

(* ------------------ sequential calls on a large cart ------------------- *)
\* The run starts from a cart that earlier addItemToCart calls have filled
\* with the items 1..n of storefront S1 (n up to MaxBulk, more than one
\* BatchWrite chunk), with no snapshot in the cache.  The calls clear it
\* (with faults), read it and remove its last line.
BulkCart(userId, n) ==
  {[userId |-> userId, itemId |-> i, storeId |-> InitialItemsTable(i).storeId,
    quantity |-> 1] : i \in 1..n}

InitBulk ==
  /\ \E u \in Users, n \in 0..MaxBulk : cartTable = BulkCart(u, n)
  /\ redisStore = [k \in CacheKeys |-> <<>>]
  /\ redis \in {"client", Null}
  /\ cacheFailed = (redis = Null)
  /\ mounted = "cartService"
  /\ InitRoutesEmpty
  /\ InitDefaults
  /\ InitHistory

NextBulk ==
  \/ GetCart({NoFault}, TRUE)
  \/ RemoveItem({MaxBulk}, {NoFault}, TRUE)
  \/ ClearCart(ClearFaults, TRUE)
  \/ ExpireCache

SpecBulk == InitBulk /\ [][NextBulk]_vars

(* ------------------- requests to the cart routes ----------------------- *)
\* the itemIds and quantities the bodies of the requests carry; the routes
\* look no item up in the catalog
RouteItems == 0..MaxLines
RouteQuantities == Quantities \cup {NonNumeric, Undefined}

RouteGetFaults == OneFault({"get", "set"}, {"get"}, {})
RouteSaveFaults == OneFault({"set"}, {"get", "put"}, {})
RouteDeleteFaults == OneFault({"del"}, {"delete"}, {})

\* a request is answered before the next one is taken
Respond(op, userId, itemId, quantity, res) ==
  /\ rowTable' = res.table
  /\ rowCache' = res.rcache
  /\ rowLast' = [op |-> op, userId |-> userId, itemId |-> itemId,
                 quantity |-> quantity, status |-> res.status, error |-> res.error,
                 cart |-> res.cart, calls |-> res.calls]
  /\ cacheFailed' = (cacheFailed \/ res.cacheErr)
  /\ UNCHANGED <<cartTable, redisStore, envVars, catalog, last, prev, pairVars, concVars,
               helperVars>>

RouteGet(faults) ==
  \E u \in Users, env \in faults :
    Respond("GET /", u, 0, 0, routerGet(rowTable, rowCache, redis, u, env))

RoutePostItem(faults) ==
  \E u \in Users, i \in RouteItems, q \in RouteQuantities, env \in faults :
    Respond("POST /item", u, i, q, routerPostItem(rowTable, rowCache, redis, u, i, q, env))

RoutePatchItem(faults) ==
  \E u \in Users, i \in RouteItems, q \in RouteQuantities, env \in faults :
    Respond("PATCH /item", u, i, q,
            routerPatchItem(rowTable, rowCache, redis, u, i, q, env))

RouteDeleteItem(faults) ==
  \E u \in Users, i \in RouteItems, env \in faults :
    Respond("DELETE /item", u, i, 0, routerDeleteItem(rowTable, rowCache, redis, u, i, env))

RouteDelete(faults) ==
  \E u \in Users, env \in faults :
    Respond("DELETE /", u, 0, 0, routerDelete(rowTable, rowCache, redis, u, env))

\* the snapshot the cart routes wrote expires (TTL) or is evicted
ExpireRowCache ==
  \E u \in Users :
    /\ rowCache[cacheKeyForCart(u)] # <<>>
    /\ rowCache' = [rowCache EXCEPT ![cacheKeyForCart(u)] = <<>>]
    /\ UNCHANGED <<seqVars, pairVars, concVars, rowTable, rowLast, helperVars>>

\* the requests, each of which can meet one fault
NextRoutes ==
  \/ RouteGet(RouteGetFaults)
  \/ RoutePostItem(RouteSaveFaults)
  \/ RoutePatchItem(RouteSaveFaults)
  \/ RouteDeleteItem(RouteSaveFaults)
  \/ RouteDelete(RouteDeleteFaults)
  \/ ExpireRowCache

\* a process serves one of the two cart implementations
InitEither ==
  /\ cartTable = {}
  /\ redisStore = [k \in CacheKeys |-> <<>>]
  /\ redis \in {"client", Null}
  /\ cacheFailed = (redis = Null)
  /\ mounted \in {"cartService", "cartRoutes"}
  /\ InitRoutesEmpty
  /\ InitDefaults
  /\ InitHistory

NextEither ==
  \/ mounted = "cartService" /\ NextFaults
  \/ mounted = "cartRoutes" /\ NextRoutes

SpecEither == InitEither /\ [][NextEither]_vars

(* ------------- the cache time-to-live of a deployment ------------------ *)
\* Both modules read their TTL once, when they are loaded.  An operator who
\* changes the variable restarts the process; the table and the cache live
\* outside the process and keep what they hold.
TtlSettings == {0, DefaultCartCacheTtl, DefaultCartTtl}

Restart ==
  \E ttl \in TtlSettings :
    /\ \/ /\ mounted = "cartService"
          /\ CART_CACHE_TTL_SECONDS' = ttl
          /\ UNCHANGED CACHE_TTL_SECONDS
       \/ /\ mounted = "cartRoutes"
          /\ CACHE_TTL_SECONDS' = ttl
          /\ UNCHANGED CART_CACHE_TTL_SECONDS
    /\ <<CART_CACHE_TTL_SECONDS, CACHE_TTL_SECONDS>>' # <<CART_CACHE_TTL_SECONDS, CACHE_TTL_SECONDS>>
    /\ UNCHANGED <<cartTable, redisStore, redis, mounted, catalog, last, prev,
                   cacheFailed, pairVars, concVars, rowVars, helperVars>>

\* the calls of the mounted module, every collaborator answering
NextTtl ==
  \/ mounted = "cartService" /\ GetCart({NoFault}, FALSE)
  \/ mounted = "cartService" /\ AddItem(ValidItems, {NoFault}, FALSE)
  \/ mounted = "cartService" /\ UpdateItem(ValidItems, {NoFault}, FALSE)
  \/ mounted = "cartService" /\ ClearCart({NoFault}, FALSE)
  \/ mounted = "cartRoutes" /\ RouteGet({NoFault})
  \/ mounted = "cartRoutes" /\ RoutePostItem({NoFault})
  \/ mounted = "cartRoutes" /\ RoutePatchItem({NoFault})
  \/ mounted = "cartRoutes" /\ RouteDeleteItem({NoFault})
  \/ mounted = "cartRoutes" /\ RouteDelete({NoFault})
  \/ Restart

SpecTtl == InitEither /\ [][NextTtl]_vars

(* ---------------- the errors of failing store commands ---------------- *)
\* The handlers above raise StoreError for every command that DynamoDB
\* rejects.  Here the rejection has a message, and the error the caller gets
\* is the one throwWithSchemaHint makes of it where the command is sent with
\* `.catch(throwWithSchemaHint)`, and the rejection itself elsewhere.
SchemaMessage == "The provided key element does not match the schema"
ThrottledMessage == "Throughput exceeds the current capacity of your table"
Messages == {SchemaMessage, ThrottledMessage}
ErrSchemaHint == "Cart table schema mismatch: expected partition key userId and sort key itemId"

throwWithSchemaHint(message) ==
  IF message = SchemaMessage THEN ErrSchemaHint ELSE message

\* the fault points whose command is sent with .catch(throwWithSchemaHint):
\* the Query of fetchCartFromDynamo, the BatchGet of loadProductDetails, the
\* Put, the Delete and the BatchWrite; the GetCommand of addItemToCart is not
HintedCommands == {"query", "refetch", "batchGet", "put", "delete", "batchWrite"}

FailedCommand(env) == IF env.failChunk > 0 THEN "batchWrite" ELSE env.storeFail

\* the result of a call whose failing command was rejected with the message
Thrown(res, env, message) ==
  IF res.error # StoreError THEN res
  ELSE [res EXCEPT !.error = IF FailedCommand(env) \in HintedCommands
                               THEN throwWithSchemaHint(message)
                             ELSE message]

Handle(op, userId, itemId, env) ==
  CASE op = "get" -> getCartForUser(cartTable, redisStore, redis, userId, env)
    [] op = "add" -> addItemToCart(cartTable, redisStore, redis, userId, itemId, 1, env)
    [] op = "remove" -> removeItemFromCart(cartTable, redisStore, redis, userId, itemId, env)
    [] op = "clear" -> clearCartForUser(cartTable, redisStore, redis, userId, env)

FaultsOf(op) ==
  {f \in (CASE op = "get" -> GetFaults [] op = "add" -> AddFaults
             [] op = "remove" -> RemoveFaults [] op = "clear" -> ClearFaults) :
     f.cacheFail = {}}

\* one call, in which at most one store command is rejected
CallRejected ==
  \E op \in {"get", "add", "remove", "clear"}, u \in Users, i \in ValidItems :
    \E env \in FaultsOf(op), message \in Messages :
      Complete(op, u, i, 1, Thrown(Handle(op, u, i, env), env, message), FALSE)

NextErrors ==
  \/ CallRejected
  \/ ExpireCache

SpecErrors == InitSeq /\ [][NextErrors]_vars

(* ------------------- calls next to another user's cart ---------------- *)
\* The calls of the run are those of the users in Users; a second user, who
\* makes no call during the run, owns rows and possibly a snapshot that
\* earlier calls of their own have left.
Bystander == "u2"

\* the second user holds the items the calls of the run name
BystanderCart == BulkCart(Bystander, MaxLines)

InitUsers ==
  /\ cartTable = BystanderCart
  /\ redis \in {"client", Null}
  /\ \E cached \in BOOLEAN :
       redisStore = [k \in CacheKeys \cup {cacheKey(Bystander)} |->
                      IF k = cacheKey(Bystander) /\ cached /\ redis # Null
                        THEN <<JSONStringify(fetchCartFromDynamo(cartTable, Bystander))>>
                      ELSE <<>>]
  /\ cacheFailed = (redis = Null)
  /\ mounted = "cartService"
  /\ InitRoutesEmpty
  /\ InitDefaults
  /\ InitHistory

SpecUsers == InitUsers /\ [][NextFaults]_vars

(* ------------------ callers of the Redis helper ------------------------ *)
SpecHelper == InitEither /\ [][NextHelper]_vars

(* ------------- the same calls with and without a cache ----------------- *)
\* Two runs receive the same calls and the same store faults: in the first
\* every cache command succeeds (cartTable, redisStore, last), in the second
\* every cache command fails (downTable, downLast).  A store fault is given
\* only to a command that both runs issue, so getCartForUser never gets a
\* failing Query (the run that hits the cache does not issue it).
InitPair ==
  /\ InitSeq
  /\ redis = "client"

StoreFaults(faults, kinds) ==
  {f \in faults : f.cacheFail = {} /\ f.storeFail \in kinds \cup {"none"}}

CacheDown(env) == [env EXCEPT !.cacheFail = {"get", "set", "del"}]

CallRecord(op, userId, itemId, quantity, res) ==
  [op |-> op, userId |-> userId, itemId |-> itemId, quantity |-> quantity,
   error |-> res.error, cart |-> res.cart, calls |-> res.calls]

PairComplete(op, userId, itemId, quantity, up, down) ==
  /\ cartTable' = up.table
  /\ redisStore' = up.rstore
  /\ last' = CallRecord(op, userId, itemId, quantity, up)
  /\ downTable' = down.table
  /\ downLast' = CallRecord(op, userId, itemId, quantity, down)
  /\ UNCHANGED <<envVars, catalog, prev, cacheFailed, concVars, rowVars, helperVars>>

PairGet ==
  \E u \in Users, env \in StoreFaults(GetFaults, {"batchGet"}) :
    PairComplete("get", u, 0, 0,
      getCartForUser(cartTable, redisStore, redis, u, env),
      getCartForUser(downTable, redisStore, redis, u, CacheDown(env)))

PairAdd ==
  \E u \in Users, i \in ValidItems, q \in Quantities,
     env \in StoreFaults(AddFaults, {"getItem", "query", "put", "refetch", "batchGet"}) :
    PairComplete("add", u, i, q,
      addItemToCart(cartTable, redisStore, redis, u, i, q, env),
      addItemToCart(downTable, redisStore, redis, u, i, q, CacheDown(env)))

PairUpdate ==
  \E u \in Users, i \in ValidItems, q \in Quantities,
     env \in StoreFaults(AddFaults \cup RemoveFaults,
                         {"getItem", "query", "put", "delete", "refetch", "batchGet"}) :
    PairComplete("update", u, i, q,
      updateItemQuantity(cartTable, redisStore, redis, u, i, q, env),
      updateItemQuantity(downTable, redisStore, redis, u, i, q, CacheDown(env)))

PairRemove ==
  \E u \in Users, i \in ValidItems,
     env \in StoreFaults(RemoveFaults, {"delete", "refetch", "batchGet"}) :
    PairComplete("remove", u, i, 0,
      removeItemFromCart(cartTable, redisStore, redis, u, i, env),
      removeItemFromCart(downTable, redisStore, redis, u, i, CacheDown(env)))

PairClear ==
  \E u \in Users, env \in StoreFaults(ClearFaults, {"query"}) :
    PairComplete("clear", u, 0, 0,
      clearCartForUser(cartTable, redisStore, redis, u, env),
      clearCartForUser(downTable, redisStore, redis, u, CacheDown(env)))

NextPair ==
  \/ PairGet
  \/ PairAdd
  \/ PairUpdate
  \/ PairRemove
  \/ PairClear
  \/ ExpireCache

SpecPair == InitPair /\ [][NextPair]_vars

(* ------------------ concurrent addItemToCart calls --------------------- *)
\* Two addItemToCart calls run in independent execution contexts.  A call
\* is suspended at each await; one action is the answer of the awaited
\* command together with the synchronous code that follows it.  No fault.
InitConc ==
  /\ InitSeq
  /\ redis = "client"

Finish(p, error, cart) ==
  /\ pc' = [pc EXCEPT ![p] = "done"]
  /\ loc' = [loc EXCEPT ![p].error = error, ![p].cart = cart]

\* lines 162-175: validation, then the GetCommand is sent
AddCall(p) ==
  \E u \in Users, i \in ItemIds, q \in Quantities :
    /\ pc[p] = "idle"
    /\ IF i = NoItemId
         THEN /\ pc' = [pc EXCEPT ![p] = "done"]
              /\ loc' = [loc EXCEPT ![p] = [NoLocals EXCEPT !.op = "add", !.userId = u, !.itemId = i,
                                             !.quantity = q, !.error = ErrItemRequired]]
       ELSE IF LessThan(q, 1)
         THEN /\ pc' = [pc EXCEPT ![p] = "done"]
              /\ loc' = [loc EXCEPT ![p] = [NoLocals EXCEPT !.op = "add", !.userId = u, !.itemId = i,
                                             !.quantity = q, !.error = ErrQuantity]]
       ELSE /\ pc' = [pc EXCEPT ![p] = "getItem"]
            /\ loc' = [loc EXCEPT ![p] = [NoLocals EXCEPT !.op = "add", !.userId = u, !.itemId = i,
                                           !.quantity = q]]
    /\ UNCHANGED <<seqVars, pairVars, lastPut, lastSet, rowVars, helperVars>>

\* lines 170-186: the catalog answers, then the first Query is sent
AddGetItem(p) ==
  /\ pc[p] = "getItem"
  /\ LET itemResult == ItemsTable(loc[p].itemId)
     IN IF ~itemResult.exists THEN Finish(p, ErrNotFound, NoCart)
        ELSE IF itemResult.storeId = Null THEN Finish(p, ErrNoStorefront, NoCart)
        ELSE /\ pc' = [pc EXCEPT ![p] = "fetchExisting"]
             /\ loc' = [loc EXCEPT ![p].storeId = itemResult.storeId]
  /\ UNCHANGED <<seqVars, pairVars, lastPut, lastSet, rowVars, helperVars>>

\* lines 186-199: the Query answers, the storefront check, the Put is sent
AddFetchExisting(p) ==
  /\ pc[p] = "fetchExisting"
  /\ LET existingCart == fetchCartFromDynamo(cartTable, loc[p].userId)
     IN IF CartConflict(existingCart, loc[p].storeId)
          THEN Finish(p, ErrConflict, NoCart)
        ELSE /\ pc' = [pc EXCEPT ![p] = "put"]
             /\ loc' = [loc EXCEPT ![p].sawEmpty = (Len(existingCart.items) = 0)]
  /\ UNCHANGED <<seqVars, pairVars, lastPut, lastSet, rowVars, helperVars>>

\* lines 199-206: the Put is applied, then the second Query is sent
AddPut(p) ==
  /\ pc[p] = "put"
  /\ cartTable' = PutCommand(cartTable,
                             [userId |-> loc[p].userId, itemId |-> loc[p].itemId,
                              storeId |-> loc[p].storeId,
                              quantity |-> loc[p].quantity])
  /\ pc' = [pc EXCEPT ![p] = "fetchFresh"]
  /\ lastPut' = p
  /\ UNCHANGED <<redisStore, envVars, catalog, last, prev, cacheFailed, pairVars, loc, lastSet, rowVars, helperVars>>

\* lines 206-207: the second Query answers, then redis.set is sent
AddFetchFresh(p) ==
  /\ pc[p] = "fetchFresh"
  /\ loc' = [loc EXCEPT ![p].freshCart = fetchCartFromDynamo(cartTable, loc[p].userId)]
  /\ pc' = [pc EXCEPT ![p] = "writeCache"]
  /\ UNCHANGED <<seqVars, pairVars, lastPut, lastSet, rowVars, helperVars>>

\* lines 207-209: redis.set is applied, then the BatchGet is sent
AddWriteCache(p) ==
  /\ pc[p] = "writeCache"
  /\ redisStore' = RefreshAfterAdd(redisStore, redis, loc[p].freshCart, FALSE).rstore
  /\ pc' = [pc EXCEPT ![p] = "enrich"]
  /\ lastSet' = p
  /\ UNCHANGED <<cartTable, envVars, catalog, last, prev, cacheFailed, pairVars, loc, lastPut, rowVars, helperVars>>

\* line 209: the BatchGet answers and the call returns
AddEnrich(p) ==
  /\ pc[p] = "enrich"
  /\ Finish(p, Ok, enrichCart(loc[p].freshCart))
  /\ UNCHANGED <<seqVars, pairVars, lastPut, lastSet, rowVars, helperVars>>

NextConc ==
  \E p \in Procs :
    \/ AddCall(p)
    \/ AddGetItem(p)
    \/ AddFetchExisting(p)
    \/ AddPut(p)
    \/ AddFetchFresh(p)
    \/ AddWriteCache(p)
    \/ AddEnrich(p)

SpecConc == InitConc /\ [][NextConc]_vars

(* ------------- concurrent get, add and clear calls --------------------- *)
\* getCartForUser and clearCartForUser calls run next to addItemToCart
\* calls, each suspended at its awaits.  The run starts from a cart that
\* earlier calls have left: empty or with one line, cached or not.
StartCart == {[userId |-> "u1", itemId |-> 1, storeId |-> "S1", quantity |-> 1]}

InitRace ==
  /\ cartTable \in {{}, StartCart}
  /\ \E cached \in BOOLEAN :
       redisStore = [k \in CacheKeys |->
                       IF cached /\ k = cacheKey("u1")
                         THEN <<JSONStringify(fetchCartFromDynamo(cartTable, "u1"))>>
                       ELSE <<>>]
  /\ redis = "client"
  /\ cacheFailed = FALSE
  /\ mounted = "cartService"
  /\ InitRoutesEmpty
  /\ InitDefaults
  /\ InitHistory

\* line 151: redis.get is sent
GetCall(p) ==
  \E u \in Users :
    /\ pc[p] = "idle"
    /\ pc' = [pc EXCEPT ![p] = "readCache"]
    /\ loc' = [loc EXCEPT ![p] = [NoLocals EXCEPT !.op = "get", !.userId = u]]
    /\ UNCHANGED <<seqVars, pairVars, lastPut, lastSet, rowVars, helperVars>>

\* lines 151-152: redis.get answers; on a miss the Query is sent
GetReadCache(p) ==
  /\ pc[p] = "readCache"
  /\ LET cachedCart == readCartFromCache(redisStore, redis, loc[p].userId, FALSE).cart
     IN IF cachedCart # <<>>
          THEN /\ pc' = [pc EXCEPT ![p] = "getEnrich"]
               /\ loc' = [loc EXCEPT ![p].freshCart = cachedCart[1]]
        ELSE /\ pc' = [pc EXCEPT ![p] = "getFetch"]
             /\ loc' = loc
  /\ UNCHANGED <<seqVars, pairVars, lastPut, lastSet, rowVars, helperVars>>

\* lines 152-155: the Query answers, then redis.set is sent
GetFetch(p) ==
  /\ pc[p] = "getFetch"
  /\ loc' = [loc EXCEPT ![p].freshCart = fetchCartFromDynamo(cartTable, loc[p].userId)]
  /\ pc' = [pc EXCEPT ![p] = "getWrite"]
  /\ UNCHANGED <<seqVars, pairVars, lastPut, lastSet, rowVars, helperVars>>

\* lines 155-158: redis.set is applied, then the BatchGet is sent
GetWriteCache(p) ==
  /\ pc[p] = "getWrite"
  /\ redisStore' = writeCartToCache(redisStore, redis, loc[p].freshCart, FALSE).rstore
  /\ pc' = [pc EXCEPT ![p] = "getEnrich"]
  /\ lastSet' = p
  /\ UNCHANGED <<cartTable, envVars, catalog, last, prev, cacheFailed, pairVars, loc, lastPut, rowVars, helperVars>>

\* line 158: the BatchGet answers and the call returns
GetEnrich(p) ==
  /\ pc[p] = "getEnrich"
  /\ Finish(p, Ok, enrichCart(loc[p].freshCart))
  /\ UNCHANGED <<seqVars, pairVars, lastPut, lastSet, rowVars, helperVars>>

\* line 244: the Query is sent
ClearCall(p) ==
  \E u \in Users :
    /\ pc[p] = "idle"
    /\ pc' = [pc EXCEPT ![p] = "clearFetch"]
    /\ loc' = [loc EXCEPT ![p] = [NoLocals EXCEPT !.op = "clear", !.userId = u]]
    /\ UNCHANGED <<seqVars, pairVars, lastPut, lastSet, rowVars, helperVars>>

\* lines 244-254: the Query answers; the first BatchWrite is sent if the
\* cart has lines, redis.del otherwise
ClearFetch(p) ==
  /\ pc[p] = "clearFetch"
  /\ LET existingCart == fetchCartFromDynamo(cartTable, loc[p].userId)
     IN /\ loc' = [loc EXCEPT ![p].freshCart = existingCart,
                              ![p].chunk = IF Len(existingCart.items) > 0 THEN 1 ELSE 0]
        /\ pc' = [pc EXCEPT ![p] = IF Len(existingCart.items) > 0
                                     THEN "clearBatch" ELSE "clearDel"]
  /\ UNCHANGED <<seqVars, pairVars, lastPut, lastSet, rowVars, helperVars>>

\* lines 253-265: one BatchWrite is applied, then the next one or redis.del
\* is sent
ClearBatch(p) ==
  /\ pc[p] = "clearBatch"
  /\ cartTable' = BatchWriteCommand(cartTable, loc[p].userId,
                                    Chunk(loc[p].freshCart.items, loc[p].chunk))
  /\ IF loc[p].chunk < NumChunks(loc[p].freshCart.items)
       THEN /\ loc' = [loc EXCEPT ![p].chunk = loc[p].chunk + 1]
            /\ pc' = pc
     ELSE /\ loc' = loc
          /\ pc' = [pc EXCEPT ![p] = "clearDel"]
  /\ UNCHANGED <<redisStore, envVars, catalog, last, prev, cacheFailed, pairVars, lastPut, lastSet, rowVars, helperVars>>

\* lines 275-276: redis.del is applied, then redis.set is sent
ClearDel(p) ==
  /\ pc[p] = "clearDel"
  /\ redisStore' = clearCartCache(redisStore, redis, loc[p].userId, FALSE).rstore
  /\ pc' = [pc EXCEPT ![p] = "clearSet"]
  /\ UNCHANGED <<cartTable, envVars, catalog, last, prev, cacheFailed, pairVars, loc, lastPut, lastSet, rowVars, helperVars>>

\* lines 268-278: redis.set of the empty cart is applied and the call
\* returns (the empty cart has no product to look up)
ClearSet(p) ==
  /\ pc[p] = "clearSet"
  /\ LET emptyCart == [userId |-> loc[p].userId, storeId |-> Null, items |-> <<>>]
     IN /\ redisStore' = writeCartToCache(redisStore, redis, emptyCart, FALSE).rstore
        /\ Finish(p, Ok, enrichCart(emptyCart))
  /\ lastSet' = p
  /\ UNCHANGED <<cartTable, envVars, catalog, last, prev, cacheFailed, pairVars, lastPut, rowVars, helperVars>>

NextRace ==
  \E p \in Procs :
    \/ AddCall(p)
    \/ AddGetItem(p)
    \/ AddFetchExisting(p)
    \/ AddPut(p)
    \/ AddFetchFresh(p)
    \/ AddWriteCache(p)
    \/ AddEnrich(p)
    \/ GetCall(p)
    \/ GetReadCache(p)
    \/ GetFetch(p)
    \/ GetWriteCache(p)
    \/ GetEnrich(p)
    \/ ClearCall(p)
    \/ ClearFetch(p)
    \/ ClearBatch(p)
    \/ ClearDel(p)
    \/ ClearSet(p)

SpecRace == InitRace /\ [][NextRace]_vars

(* ------------- concurrent POST /cart/item requests --------------------- *)
\* Two POST /cart/item requests to the cart routes are served at the same
\* time, each suspended at its awaits: the GetCommand, the PutCommand and
\* the cache write.  No fault.
InitPosts ==
  /\ cartTable = {}
  /\ redisStore = [k \in CacheKeys |-> <<>>]
  /\ redis \in {"client", Null}
  /\ cacheFailed = (redis = Null)
  /\ mounted = "cartRoutes"
  /\ InitRoutesEmpty
  /\ InitDefaults
  /\ InitHistory

\* lines 149-168: the body is read, then the GetCommand is sent
PostCall(p) ==
  \E u \in Users, i \in RouteItems, q \in RouteQuantities :
    /\ pc[p] = "idle"
    /\ IF i = NoItemId
         THEN /\ pc' = [pc EXCEPT ![p] = "done"]
              /\ loc' = [loc EXCEPT ![p] = [NoLocals EXCEPT !.op = "POST /item", !.userId = u,
                                             !.itemId = i, !.quantity = q,
                                             !.error = ErrItemRequired]]
       ELSE /\ pc' = [pc EXCEPT ![p] = "postLoad"]
            /\ loc' = [loc EXCEPT ![p] = [NoLocals EXCEPT !.op = "POST /item", !.userId = u,
                                           !.itemId = i, !.quantity = q]]
    /\ UNCHANGED <<seqVars, pairVars, lastPut, lastSet, rowVars, helperVars>>

\* lines 168-185: the GetCommand answers, the items array is built from the
\* row it returned, then the PutCommand is sent
PostLoad(p) ==
  /\ pc[p] = "postLoad"
  /\ LET safeQuantity == IF IsFiniteNumber(loc[p].quantity) /\ loc[p].quantity > 0
                           THEN loc[p].quantity ELSE 1
         currentCart == loadCartFromDatabase(rowTable, loc[p].userId)
         existingIndex == FindIndex(currentCart.items, loc[p].itemId)
         newItem == [itemId |-> loc[p].itemId, quantity |-> safeQuantity]
     IN loc' = [loc EXCEPT ![p].items =
                  IF existingIndex > 0
                    THEN [currentCart.items EXCEPT ![existingIndex] = newItem]
                  ELSE Append(currentCart.items, newItem)]
  /\ pc' = [pc EXCEPT ![p] = "postSave"]
  /\ UNCHANGED <<seqVars, pairVars, lastPut, lastSet, rowVars, helperVars>>

\* lines 185-186: the PutCommand replaces the row, then the cache write starts
PostSave(p) ==
  /\ pc[p] = "postSave"
  /\ rowTable' = saveCartToDatabase(rowTable, loc[p].userId, loc[p].items)
  /\ pc' = [pc EXCEPT ![p] = "postCache"]
  /\ lastPut' = p
  /\ UNCHANGED <<seqVars, pairVars, loc, lastSet, rowCache, rowLast, helperVars>>

\* lines 186-188: the cache write is done and the request is answered 200
PostCache(p) ==
  /\ pc[p] = "postCache"
  /\ LET updatedCart == [userId |-> loc[p].userId, items |-> loc[p].items]
     IN /\ rowCache' = saveCartToCache(rowCache, redis, loc[p].userId, updatedCart,
                                       FALSE).rcache
        /\ Finish(p, Ok, updatedCart)
  /\ lastSet' = p
  /\ UNCHANGED <<seqVars, pairVars, lastPut, rowTable, rowLast, helperVars>>

NextPosts ==
  \E p \in Procs :
    \/ PostCall(p)
    \/ PostLoad(p)
    \/ PostSave(p)
    \/ PostCache(p)

SpecPosts == InitPosts /\ [][NextPosts]_vars

(* ============================== claims ================================= *)
StoreOfCart(table, userId) == fetchCartFromDynamo(table, userId).storeId

HasLine(cart, itemId, quantity) ==
  \E k \in 1..Len(cart.items) :
    cart.items[k].itemId = itemId /\ cart.items[k].quantity = quantity

HasItem(cart, itemId) ==
  \E k \in 1..Len(cart.items) : cart.items[k].itemId = itemId

Issued(calls, names) == \E k \in 1..Len(calls) : calls[k] \in names

Mutations == {"Put", "Delete", "BatchWrite"}
CacheWrites == {"redis.set", "redis.del"}

\* C1: with calls run one at a time from an empty cart table, all the cart
\* lines of one user carry the same storeId in every reachable state.
C1_SingleStorefront ==
  \A r1 \in cartTable, r2 \in cartTable :
    r1.userId = r2.userId => r1.storeId = r2.storeId

C1_Witness ==
  /\ \E r1 \in cartTable, r2 \in cartTable :
       r1.userId = r2.userId /\ r1.itemId # r2.itemId
  /\ last.op = "add" /\ last.error = Ok

\* C2: an addItemToCart for an item of storefront B, by a user whose durable
\* cart is non-empty with storefront A # B, fails (with the conflict error
\* whenever the quantity is valid), issues no put, and leaves the cart table
\* and the cached snapshot as they were.
C2_ConflictRejected ==
  [][(/\ last' # last
      /\ last'.op = "add"
      /\ StoreOfCart(cartTable, last'.userId) # Null
      /\ ItemsTable(last'.itemId).storeId
           \notin {Null, StoreOfCart(cartTable, last'.userId)})
     => (/\ last'.error # Ok
         /\ (last'.quantity >= 1 => last'.error = ErrConflict)
         /\ ~Issued(last'.calls, Mutations \cup CacheWrites)
         /\ cartTable' = cartTable
         /\ redisStore' = redisStore)]_vars

C2_Witness ==
  /\ last.op = "add" /\ last.error = ErrConflict
  /\ cartTable # {}
  /\ redisStore[cacheKey(last.userId)] # <<>>

\* C3: with a working cache, a successful addItemToCart(userId, itemId,
\* quantity) followed by a successful getCartForUser(userId) returns a cart
\* holding itemId with exactly that quantity.
C3_AddThenGet ==
  [][(/\ last.op = "add" /\ last.error = Ok
      /\ ~cacheFailed
      /\ last'.op = "get" /\ last'.userId = last.userId /\ last'.error = Ok)
     => HasLine(last'.cart, last.itemId, last.quantity)]_vars

C3_Witness ==
  /\ prev.op = "add" /\ prev.ok
  /\ ~cacheFailed
  /\ last.op = "get" /\ last.error = Ok
  /\ Len(last.cart.items) > 1
  /\ ~Issued(last.calls, {"Query"})

\* C8: an addItemToCart rejected for a missing itemId, a quantity below 1 or
\* an item that is not in the catalog issues no put, no delete and no cache
\* write, and leaves cart table and cache unchanged.
C8_RejectedBeforeMutation ==
  [][(/\ last' # last
      /\ last'.op = "add"
      /\ last'.error \in {ErrItemRequired, ErrQuantity, ErrNotFound})
     => (/\ ~Issued(last'.calls, Mutations \cup CacheWrites)
         /\ cartTable' = cartTable
         /\ redisStore' = redisStore)]_vars

C8_Witness ==
  /\ last.op = "add" /\ last.error = ErrNotFound
  /\ cartTable # {}
  /\ redisStore[cacheKey(last.userId)] # <<>>

\* C4: a run in which every cache command fails yields, call by call, the
\* same error or returned cart and the same cart table as the run of the
\* same calls with a working cache.
C4_CacheUnobservable ==
  /\ last.error = downLast.error
  /\ last.cart = downLast.cart
  /\ cartTable = downTable

\* C5: when a mutating call (add, update, remove, clear) has completed, the
\* cached snapshot of its user is absent or equal to the durable cart, also
\* when cache commands fail.
C5_NoStaleSnapshot ==
  [][(/\ last' # last
      /\ last'.op \in {"add", "update", "remove", "clear"}
      /\ last'.error = Ok)
     => redisStore'[cacheKey(last'.userId)]
          \in {<<>>, <<JSONStringify(fetchCartFromDynamo(cartTable', last'.userId))>>}]_vars

\* C6: after a successful clearCartForUser the cart table holds no line of
\* the user, and a getCartForUser that follows it returns a cart with no
\* items and storeId = null.
C6_ClearThenGet ==
  [][/\ (last' # last /\ last'.op = "clear" /\ last'.error = Ok)
          => RowsOf(cartTable', last'.userId) = {}
     /\ (/\ last.op = "clear" /\ last.error = Ok
         /\ last'.op = "get" /\ last'.userId = last.userId /\ last'.error = Ok)
          => (last'.cart.items = <<>> /\ last'.cart.storeId = Null)]_vars

\* C7: a successful updateItemQuantity(userId, itemId, 0) returns a cart
\* without itemId (with storeId = null when it was the last line), and the
\* getCartForUser that follows it returns a cart without itemId.
C7_UpdateZeroRemoves ==
  [][/\ (last' # last /\ last'.op = "update" /\ last'.quantity = 0 /\ last'.error = Ok)
          => /\ ~HasItem(last'.cart, last'.itemId)
             /\ (RowsOf(cartTable', last'.userId) = {} => last'.cart.storeId = Null)
     /\ (/\ last.op = "update" /\ last.quantity = 0 /\ last.error = Ok
         /\ last'.op = "get" /\ last'.userId = last.userId /\ last'.error = Ok)
          => ~HasItem(last'.cart, last.itemId)]_vars

Completed(p) == pc[p] = "done" /\ loc[p].error = Ok

PutDone(p) == pc[p] \in {"fetchFresh", "writeCache", "enrich", "done"} /\ loc[p].error = Ok

HasRow(table, userId, itemId, quantity) ==
  \E r \in table : r.userId = userId /\ r.itemId = itemId /\ r.quantity = quantity

\* C9: when two concurrent addItemToCart calls of one user have both
\* completed, the line written last holds the last writer's quantity and the
\* cached snapshot equals the durable cart.
C9_LastWriterWins ==
  (\A p \in Procs : Completed(p) /\ loc[p].userId = loc["p1"].userId)
    => /\ HasRow(cartTable, loc[lastPut].userId, loc[lastPut].itemId,
                 loc[lastPut].quantity)
       /\ redisStore[cacheKey(loc["p1"].userId)]
            = <<JSONStringify(fetchCartFromDynamo(cartTable, loc["p1"].userId))>>

\* C10: two concurrent addItemToCart calls of one user that both read the
\* empty cart, for items of two different storefronts, both pass the check
\* and both persist their line: once both puts are done the cart table holds
\* lines of two storefronts.
C10_MixedCartReachable ==
  \A p \in Procs, q \in Procs :
    (/\ p # q
     /\ loc[p].userId = loc[q].userId
     /\ loc[p].sawEmpty /\ loc[q].sawEmpty
     /\ PutDone(p) /\ PutDone(q)
     /\ loc[p].storeId # loc[q].storeId)
    => (/\ HasRow(cartTable, loc[p].userId, loc[p].itemId, loc[p].quantity)
        /\ HasRow(cartTable, loc[q].userId, loc[q].itemId, loc[q].quantity)
        /\ ~C1_SingleStorefront)

C10_Witness ==
  /\ \A p \in Procs : Completed(p) /\ loc[p].sawEmpty
  /\ \E r1 \in cartTable, r2 \in cartTable :
       r1.userId = r2.userId /\ r1.storeId # r2.storeId

\* any pattern of failing cache commands together with any failing store command
AnyFaults(cacheCalls, storeCalls, chunks) ==
  [cacheFail : SUBSET cacheCalls, storeFail : storeCalls \cup {"none"},
   failChunk : chunks \cup {0}]

\* the same store behaviour with every cache command answering
StoreOnly(env) == [env EXCEPT !.cacheFail = {}]

\* the cache as a failed read presents it: no snapshot
AsMiss(rstore, userId, env) ==
  IF "get" \in env.cacheFail THEN [rstore EXCEPT ![cacheKey(userId)] = <<>>]
  ELSE rstore

\* C11: no failure of a cache get, set or del propagates.  Under any pattern
\* of cache failures and any store fault, a mutating call (add, update,
\* remove, clear) succeeds or raises exactly as the same call does with no
\* cache client at all, and getCartForUser succeeds or raises exactly as it
\* does with no cache failure on a cache where the failed read is a miss.
C11_CacheFailureNeverRaised ==
  \A u \in Users :
    /\ \A env \in AnyFaults({"get", "set"}, {"query", "batchGet"}, {}) :
         getCartForUser(cartTable, redisStore, redis, u, env).error
           = getCartForUser(cartTable, AsMiss(redisStore, u, env), redis, u,
                            StoreOnly(env)).error
    /\ \A i \in ItemIds, q \in Quantities,
          env \in AnyFaults({"set"}, {"getItem", "query", "put", "delete",
                                     "refetch", "batchGet"}, {}) :
         /\ addItemToCart(cartTable, redisStore, redis, u, i, q, env).error
              = addItemToCart(cartTable, redisStore, Null, u, i, q, StoreOnly(env)).error
         /\ updateItemQuantity(cartTable, redisStore, redis, u, i, q, env).error
              = updateItemQuantity(cartTable, redisStore, Null, u, i, q,
                                   StoreOnly(env)).error
         /\ removeItemFromCart(cartTable, redisStore, redis, u, i, env).error
              = removeItemFromCart(cartTable, redisStore, Null, u, i, StoreOnly(env)).error
    /\ \A env \in AnyFaults({"del", "set"}, {"query"}, 1..2) :
         clearCartForUser(cartTable, redisStore, redis, u, env).error
           = clearCartForUser(cartTable, redisStore, Null, u, StoreOnly(env)).error

\* a getCartForUser that missed because redis.get failed, whose redis.set
\* failed too, and that still returned the durable cart
C11_Witness ==
  /\ redis = "client" /\ cacheFailed
  /\ last.op = "get" /\ last.error = Ok
  /\ Issued(last.calls, {"Query"}) /\ Issued(last.calls, {"redis.set"})
  /\ Len(last.cart.items) > 0
  /\ redisStore[cacheKey(last.userId)]
       # <<JSONStringify(fetchCartFromDynamo(cartTable, last.userId))>>

\* C12: removeItemFromCart is idempotent.  With every collaborator answering,
\* removing an item that is not in the cart succeeds, leaves the cart table
\* as it is and returns the current cart; and a second removeItemFromCart of
\* the same item succeeds, leaves cart table and cache as the first call left
\* them and returns the same cart.
C12_RemoveIdempotent ==
  \A u \in Users, i \in ItemIds \ {NoItemId} :
    LET once == removeItemFromCart(cartTable, redisStore, redis, u, i, NoFault)
        twice == removeItemFromCart(once.table, once.rstore, redis, u, i, NoFault)
    IN /\ once.error = Ok
       /\ ~HasItem(fetchCartFromDynamo(cartTable, u), i)
            => /\ once.table = cartTable
               /\ once.cart = enrichCart(fetchCartFromDynamo(cartTable, u))
       /\ twice.error = Ok
       /\ twice.table = once.table
       /\ twice.rstore = once.rstore
       /\ twice.cart = once.cart

\* two successful removeItemFromCart calls in a row that leave a line behind
C12_Witness ==
  /\ prev.op = "remove" /\ prev.ok
  /\ last.op = "remove" /\ last.error = Ok
  /\ Issued(last.calls, {"Delete"})
  /\ ~HasItem(last.cart, last.itemId)
  /\ Len(last.cart.items) > 0
  /\ Cardinality(cartTable) = Len(last.cart.items)

OtherRows(table, userId, itemId) ==
  {row \in table : ~(row.userId = userId /\ row.itemId = itemId)}

\* C13: addItemToCart is an upsert keyed by (userId, itemId).  After every
\* successful addItemToCart(userId, itemId, quantity) the cart table holds
\* exactly one row for (userId, itemId), with the quantity of the call (not a
\* sum), and every other row is as it was before the call.
C13_AddIsUpsert ==
  [][(/\ last' # last
      /\ last'.op = "add"
      /\ last'.error = Ok)
     => (/\ HasRow(cartTable', last'.userId, last'.itemId, last'.quantity)
         /\ Cardinality(cartTable' \ OtherRows(cartTable', last'.userId, last'.itemId)) = 1
         /\ OtherRows(cartTable', last'.userId, last'.itemId)
              = OtherRows(cartTable, last'.userId, last'.itemId)
         /\ HasLine(last'.cart, last'.itemId, last'.quantity)
         /\ Len(last'.cart.items) = Cardinality(RowsOf(cartTable', last'.userId)))]_vars

\* a successful add right after a successful add, in a cart that holds a
\* second line with another quantity
C13_Witness ==
  /\ prev.op = "add" /\ prev.ok
  /\ last.op = "add" /\ last.error = Ok
  /\ last.quantity = 1
  /\ Cardinality(cartTable) = 2
  /\ \E row \in cartTable : row.itemId # last.itemId /\ row.quantity = MaxQty

\* the calls that remove one line: removeItemFromCart and updateItemQuantity
\* with a quantity below 1
Removal(call) ==
  call.op = "remove" \/ (call.op = "update" /\ LessThan(call.quantity, 1))

\* an item an addItemToCart accepts: in the catalog, with a storefront
Addable(itemId, quantity) ==
  /\ itemId # NoItemId /\ quantity >= 1
  /\ ItemsTable(itemId).exists /\ ItemsTable(itemId).storeId # Null

\* C14: removing the last line releases the storefront constraint.  A
\* successful removal of the only line of a cart leaves no row of the user
\* and returns the empty cart with storeId = null, and the addItemToCart
\* that follows it succeeds for a catalog item of any storefront.
C14_LastLineReleasesStore ==
  [][/\ (/\ last' # last
         /\ Removal(last') /\ last'.error = Ok
         /\ Cardinality(RowsOf(cartTable, last'.userId)) = 1
         /\ HasItem(fetchCartFromDynamo(cartTable, last'.userId), last'.itemId))
          => (/\ RowsOf(cartTable', last'.userId) = {}
              /\ last'.cart.items = <<>>
              /\ last'.cart.storeId = Null)
     /\ (/\ Removal(last) /\ last.error = Ok
         /\ last.cart.items = <<>>
         /\ last'.op = "add" /\ last'.userId = last.userId
         /\ Addable(last'.itemId, last'.quantity))
          => (/\ last'.error = Ok
              /\ last'.cart.storeId = ItemsTable(last'.itemId).storeId)]_vars

\* the removal that followed a successful add returned the empty cart
C14_Witness ==
  /\ prev.op = "add" /\ prev.ok
  /\ Removal(last) /\ last.error = Ok
  /\ last.cart.items = <<>> /\ last.cart.storeId = Null
  /\ RowsOf(cartTable, last.userId) = {}
  /\ redisStore[cacheKey(last.userId)] # <<>>

\* C15: every row of the cart table has quantity >= 1 in every reachable
\* state, whatever quantity the request bodies carry.
C15_QuantityAtLeastOne ==
  \A row \in cartTable : row.quantity # NonNumeric /\ row.quantity >= 1

\* a call that the cart service accepts in the current state
Accepted(call) ==
  \/ call.op \in {"get", "clear"}
  \/ call.op = "remove" /\ call.itemId # NoItemId
  \/ /\ call.op = "add"
     /\ Addable(call.itemId, call.quantity)
     /\ ~CartConflict(fetchCartFromDynamo(cartTable, call.userId),
                      ItemsTable(call.itemId).storeId)

\* C16: enrichment does not fail a call when catalog records are missing.
\* With the store answering, a call the service accepts succeeds also when
\* lines of the cart have no catalog record, each such line is returned with
\* name "Item", price 0, the placeholder image and category "General", and a
\* call that returns an empty cart issues no BatchGet.
C16_EnrichmentDefaults ==
  [][(last' # last)
     => (/\ Accepted(last') => last'.error = Ok
         /\ last'.error = Ok
              => /\ \A k \in 1..Len(last'.cart.items) :
                      ~ItemsTable(last'.cart.items[k].itemId).exists
                        => /\ last'.cart.items[k].name = "Item"
                           /\ last'.cart.items[k].price = 0
                           /\ last'.cart.items[k].image = DEFAULT_IMAGE
                           /\ last'.cart.items[k].category = "General"
                 /\ (last'.cart.items = <<>>
                       => ~Issued(last'.calls, {"BatchGet"})))]_vars

\* a getCartForUser returned a line with the defaults next to a line with
\* its catalog fields
C16_Witness ==
  /\ last.op = "get" /\ last.error = Ok
  /\ Issued(last.calls, {"BatchGet"})
  /\ \E k \in 1..Len(last.cart.items) :
       /\ ~ItemsTable(last.cart.items[k].itemId).exists
       /\ last.cart.items[k].name = "Item"
       /\ last.cart.items[k].image = DEFAULT_IMAGE
  /\ \E k \in 1..Len(last.cart.items) : last.cart.items[k].name = "sku"

EmptySnapshot(userId) ==
  <<JSONStringify([userId |-> userId, storeId |-> Null, items |-> <<>>])>>

\* C17: a clearCartForUser whose BatchWrite number c fails raises the error,
\* and the retried clearCartForUser that succeeds leaves the cart table
\* without a row of the user, returns the same cart and leaves the same cart
\* table and cache as a clearCartForUser that succeeds at the first attempt
\* (under the same cache behaviour cf); with a client and a redis.set that
\* answers, the cache then holds the empty snapshot.
C17_ClearRetry ==
  \A u \in Users, cf \in SUBSET {"del", "set"} :
    \A c \in 1..NumChunks(fetchCartFromDynamo(cartTable, u).items) :
      LET attempt == [cacheFail |-> cf, storeFail |-> "none", failChunk |-> 0]
          failed == clearCartForUser(cartTable, redisStore, redis, u,
                                     [NoFault EXCEPT !.failChunk = c])
          retried == clearCartForUser(failed.table, failed.rstore, redis, u, attempt)
          first == clearCartForUser(cartTable, redisStore, redis, u, attempt)
      IN /\ failed.error = StoreError
         /\ retried.error = Ok
         /\ RowsOf(retried.table, u) = {}
         /\ retried.table = first.table
         /\ retried.rstore = first.rstore
         /\ retried.cart = first.cart
         /\ (redis # Null /\ "set" \notin cf)
              => retried.rstore[cacheKey(u)] = EmptySnapshot(u)

\* a clearCartForUser that followed a failed one has deleted the rows that
\* were left, in one BatchWrite, and written the empty snapshot
C17_Witness ==
  /\ prev.op = "clear" /\ ~prev.ok
  /\ last.op = "clear" /\ last.error = Ok
  /\ last.calls = <<"Query", "BatchWrite", "redis.del", "redis.set">>
  /\ RowsOf(cartTable, last.userId) = {}
  /\ redisStore[cacheKey(last.userId)] = EmptySnapshot(last.userId)

CacheTouches == {"redis.get", "redis.set", "redis.del"}

\* no durable write is issued once a cache command has been issued
NoWriteAfterCache(calls) ==
  \A k \in 1..Len(calls) :
    calls[k] \in CacheTouches => \A j \in (k + 1)..Len(calls) : calls[j] \notin Mutations

\* every cache command comes after a durable write
WriteBeforeCache(calls) ==
  \A k \in 1..Len(calls) :
    calls[k] \in CacheTouches => \E j \in 1..(k - 1) : calls[j] \in Mutations

\* the call ended with the failure of a durable write
WriteFailed(call) ==
  call.error # Ok /\ call.calls # <<>> /\ call.calls[Len(call.calls)] \in Mutations

\* C18: in every mutating operation, of the cart service and of the cart
\* routes, the durable store is written before the cache is touched: no put,
\* delete or batch write follows a cache command, every cache command follows
\* the durable write (a clearCartForUser of an empty cart has nothing to
\* write), and a call that ends with a failed durable write has issued no
\* cache command and leaves the cache as it was.
C18_DurableBeforeCache ==
  [][/\ (last' # last /\ last'.op \in {"add", "update", "remove", "clear"})
          => /\ NoWriteAfterCache(last'.calls)
             /\ (last'.op # "clear" \/ RowsOf(cartTable, last'.userId) # {})
                  => WriteBeforeCache(last'.calls)
             /\ WriteFailed(last')
                  => (redisStore' = redisStore /\ ~Issued(last'.calls, CacheTouches))
     /\ (/\ rowLast' # rowLast
         /\ rowLast'.op \in {"POST /item", "PATCH /item", "DELETE /item", "DELETE /"})
          => /\ NoWriteAfterCache(rowLast'.calls)
             /\ WriteBeforeCache(rowLast'.calls)
             /\ WriteFailed(rowLast')
                  => (rowCache' = rowCache /\ ~Issued(rowLast'.calls, CacheTouches))]_vars

\* an addItemToCart whose Put failed has left the snapshot of the cart in place
C18_Witness ==
  /\ last.op = "add" /\ last.error = StoreError
  /\ last.calls = <<"Get", "Query", "Put">>
  /\ redisStore[cacheKey(last.userId)]
       = <<JSONStringify(fetchCartFromDynamo(cartTable, last.userId))>>
  /\ cartTable # {}


\* C19: for quantity >= 1, updateItemQuantity(userId, itemId, quantity) behaves
\* exactly as addItemToCart(userId, itemId, quantity) called in the same state:
\* the same error or the same cart is returned, the same commands are sent to
\* the catalog, the table and the cache (validation and storefront check
\* included), and the table and the cache end up the same, also when the cart
\* does not hold the item (the line is then inserted).
C19_UpdateAsAdd ==
  [][(/\ last' # last
      /\ last'.op = "update"
      /\ ~LessThan(last'.quantity, 1))
     => LET asAdd == addItemToCart(cartTable, redisStore, redis, last'.userId,
                                   last'.itemId, last'.quantity, NoFault)
        IN /\ last'.error = asAdd.error
           /\ last'.cart = asAdd.cart
           /\ last'.calls = asAdd.calls
           /\ cartTable' = asAdd.table
           /\ redisStore' = asAdd.rstore
           /\ (asAdd.error = Ok /\ last'.itemId \in ValidItems
                 => HasRow(cartTable', last'.userId, last'.itemId, last'.quantity))]_vars

\* an update with a quantity of 1 or more has inserted a line into a cart
\* that had just been cleared
C19_Witness ==
  /\ prev.op = "clear" /\ prev.ok
  /\ last.op = "update" /\ last.error = Ok
  /\ last.quantity >= 1
  /\ HasLine(last.cart, last.itemId, last.quantity)
  /\ HasRow(cartTable, last.userId, last.itemId, last.quantity)
  /\ Cardinality(cartTable) = 1


\* the cache TTL the mounted module runs with
CacheTtl == IF mounted = "cartService" THEN CART_CACHE_TTL_SECONDS ELSE CACHE_TTL_SECONDS

InFlight == {a \in Clients : promise[a].state = "pending"}

\* C21, as stated: once a client exists every later getRedisClient call
\* returns that same client, and at most one client is ever created.
C21_OneClientEver ==
  /\ created <= 1
  /\ \A p \in Procs : got[p].returned => got[p].client \in {NoClient, 1}

\* C21, amended: a client is built only by a call that finds the helper
\* holding neither an open client nor a connection attempt.  A call made
\* while the helper holds an attempt builds nothing (it returns the client
\* being connected or waits for that attempt), a call made while the held
\* client is open returns that client, and every client a call returns is the
\* one the helper holds at that moment.  After the references have been
\* reset a later call builds the next client; the synchronous helper never
\* drops its client and builds at most one.
C21_OneClientAtATime ==
  [][/\ (created' # created
           => /\ created' = created + 1
              /\ connectPromise = NoClient
              /\ redisClient = NoClient \/ redisClient \notin isOpen
              /\ redisClient' = created')
     /\ \A p \in Procs :
          (got'[p] # got[p] /\ got'[p].returned /\ got'[p].client # NoClient)
             => /\ got'[p].client = redisClient'
                /\ (redisClient \in isOpen => got'[p].client = redisClient)
     /\ \A p \in Procs :
          (awaiting'[p] # NoClient) => awaiting'[p] \in InFlight'
     /\ \A p \in Procs :
          (awaiting'[p] # awaiting[p] /\ awaiting'[p] # NoClient /\ connectPromise # NoClient)
             => /\ awaiting'[p] = connectPromise
                /\ created' = created
     /\ (mounted = "cartService" => created' <= 1)]_vars

\* two callers of the asynchronous helper are suspended on the same
\* connection attempt, and one client has been built
C21_Witness ==
  /\ mounted = "cartRoutes"
  /\ created = 1
  /\ \A p \in Procs : awaiting[p] = 1
  /\ 1 \notin isOpen


\* the name and price enrichCart gives the line of an item, from the catalog
\* as it is now
CurrentName(itemId) == IF ItemsTable(itemId).exists THEN ItemsTable(itemId).name ELSE "Item"
CurrentPrice(itemId) == IF ItemsTable(itemId).exists THEN ItemsTable(itemId).price ELSE 0

\* C22: the catalog fields of a response are those of the catalog at the
\* moment of the response.  Every cached snapshot holds cart fields only (its
\* lines carry itemId, quantity and storeId, no catalog field), and every
\* cart a call returns, a getCartForUser answered from the cache included,
\* carries for each line the name and the price the catalog has at that call.
C22_CatalogFieldsCurrent ==
  [][/\ \A u \in Users :
          redisStore'[cacheKey(u)] # <<>>
            => \A k \in 1..Len(JSONParse(redisStore'[cacheKey(u)][1]).items) :
                 DOMAIN JSONParse(redisStore'[cacheKey(u)][1]).items[k]
                   = {"itemId", "quantity", "storeId"}
     /\ (last' # last /\ last'.op \in {"get", "add", "update"} /\ last'.error = Ok)
          => \A k \in 1..Len(last'.cart.items) :
               LET line == last'.cart.items[k]
               IN /\ {"name", "price"} \subseteq DOMAIN line
                  /\ line.name = CurrentName(line.itemId)
                  /\ line.price = CurrentPrice(line.itemId)
                  /\ catalog' = catalog]_vars

\* a getCartForUser answered from the cache (no Query) right after a listing
\* of the cart was renamed and repriced: the snapshot is older than the new
\* name, and the new name and price are returned
C22_Witness ==
  /\ prev.op = "PUT /listings"
  /\ last.op = "get" /\ last.error = Ok
  /\ last.calls = <<"redis.get", "BatchGet">>
  /\ \E k \in 1..Len(last.cart.items) :
       /\ last.cart.items[k].name = RelistedName
       /\ last.cart.items[k].price = InitialItemsTable(last.cart.items[k].itemId).price + 1


\* snapshots the cache can hold whatever the cart table holds: none, an empty
\* cart, a cart of storefront S1, a cart of storefront S2
AnySnapshots(userId) ==
  {<<>>}
    \cup {<<JSONStringify(fetchCartFromDynamo(t, userId))>> :
            t \in {{},
                   {[userId |-> userId, itemId |-> 1, storeId |-> "S1", quantity |-> 1]},
                   {[userId |-> userId, itemId |-> ItemOther, storeId |-> "S2",
                     quantity |-> 1]}}}

SetFails == [NoFault EXCEPT !.cacheFail = {"set"}]

\* C23: the storefront check of addItemToCart does not depend on the cache.
\* In every reachable state, replacing the cached snapshot of the user by any
\* other snapshot (none, empty, of the same or of another storefront) changes
\* neither the error or cart addItemToCart returns nor the cart table it
\* leaves, and after a successful call whose redis.set succeeds not the
\* cache either.
C23_CheckIgnoresCache ==
  \A u \in Users, i \in ItemIds, q \in Quantities, env \in {NoFault, SetFails} :
    \A s \in AnySnapshots(u) :
      LET here == addItemToCart(cartTable, redisStore, redis, u, i, q, env)
          there == addItemToCart(cartTable, [redisStore EXCEPT ![cacheKey(u)] = s],
                                 redis, u, i, q, env)
      IN /\ there.error = here.error
         /\ there.cart = here.cart
         /\ there.table = here.table
         /\ there.calls = here.calls
         /\ (here.error = Ok /\ redis # Null /\ env = NoFault
               => there.rstore = here.rstore)

\* an add was accepted into a cart of storefront S2 while the cache holds a
\* stale snapshot of storefront S1 (its own redis.set failed as well)
C23_Witness ==
  /\ last.op = "add" /\ last.error = Ok
  /\ last.cart.storeId = "S2"
  /\ redisStore[cacheKey(last.userId)] # <<>>
  /\ JSONParse(redisStore[cacheKey(last.userId)][1]).storeId = "S1"


Count(calls, name) == Cardinality({k \in 1..Len(calls) : calls[k] = name})

\* the lines named by the first c delete requests of clearCartForUser, in the
\* order in which the requests name them
RECURSIVE Requested(_, _)
Requested(items, c) ==
  IF c = 0 THEN <<>> ELSE Requested(items, c - 1) \o Chunk(items, c)

\* C24: clearCartForUser deletes the n lines it fetched in ceil(n / 25)
\* BatchWrite requests of at most 25 delete requests each, sent one after the
\* other (a failing request ends the call: no later request is sent), the
\* requests taken together name every fetched line exactly once (they name
\* the fetched lines in their order), a cart without lines causes
\* no BatchWrite, and a call that succeeds leaves no row of the user.
C24_ClearInBatches ==
  [][(last' # last /\ last'.op = "clear" /\ Issued(last'.calls, {"Query"}))
     => LET items == fetchCartFromDynamo(cartTable, last'.userId).items
            n == Len(items)
            needed == CHOOSE m \in 0..n : m * 25 >= n /\ (m = 0 \/ (m - 1) * 25 < n)
        IN /\ \A c \in 1..NumChunks(items) : Len(Chunk(items, c)) \in 1..25
           /\ Requested(items, NumChunks(items)) = items
           /\ (last'.error = Ok
                 => /\ Count(last'.calls, "BatchWrite") = needed
                    /\ RowsOf(cartTable', last'.userId) = {})
           /\ (last'.error # Ok /\ Issued(last'.calls, {"BatchWrite"})
                 => /\ Count(last'.calls, "BatchWrite") <= needed
                    /\ last'.calls[Len(last'.calls)] = "BatchWrite"
                    /\ Cardinality(RowsOf(cartTable', last'.userId))
                         >= n - 25 * (Count(last'.calls, "BatchWrite") - 1))
           /\ (n = 0 => ~Issued(last'.calls, {"BatchWrite"}))]_vars

\* a clear of a cart of more than 25 lines has sent two BatchWrite requests
\* and emptied the cart
C24_Witness ==
  /\ last.op = "clear" /\ last.error = Ok
  /\ prev.op = "none"
  /\ Count(last.calls, "BatchWrite") = 2
  /\ cartTable = {}


\* C25: every cart a cart-service call returns in a sequential run, faults
\* and stale snapshots included, has storeId null exactly when it has no
\* lines, and otherwise every line of it, the first included, carries the
\* storeId of the cart.
C25_StoreIdOfReturnedCart ==
  (last.op \in {"get", "add", "update", "remove", "clear"} /\ last.error = Ok)
    => /\ (last.cart.storeId = Null) <=> (Len(last.cart.items) = 0)
       /\ \A k \in 1..Len(last.cart.items) :
            /\ last.cart.items[k].storeId # Null
            /\ last.cart.items[k].storeId = last.cart.storeId

\* a removal returned a cart of two lines of storefront S1
C25_Witness ==
  /\ last.op = "remove" /\ last.error = Ok
  /\ Len(last.cart.items) = 2
  /\ last.cart.storeId = "S1"
  /\ last.cart.items[2].storeId = "S1"


\* C26: getCartForUser never writes to the cart table.  Answered from the
\* cache it issues no Query and no redis.set and leaves the cache as it is.
\* On a miss (no client, no snapshot, or a failed redis.get) it issues one
\* Query and, with a client, one redis.set whose value is the cart that Query
\* returned: the cache is left unchanged or holds exactly that cart, and it
\* holds that cart whenever no cache command has failed.
C26_GetFrame ==
  [][(last' # last /\ last'.op = "get")
     => LET key == cacheKey(last'.userId)
            fetched == <<JSONStringify(fetchCartFromDynamo(cartTable, last'.userId))>>
            queried == Issued(last'.calls, {"Query"})
        IN /\ cartTable' = cartTable
           /\ ~Issued(last'.calls, Mutations)
           /\ Count(last'.calls, "Query") <= 1
           /\ \A k \in CacheKeys \ {key} : redisStore'[k] = redisStore[k]
           /\ (redis = Null \/ redisStore[key] = <<>>) => queried
           /\ ~queried
                => /\ redisStore' = redisStore
                   /\ redisStore[key] # <<>>
                   /\ ~Issued(last'.calls, {"redis.set", "redis.del"})
           /\ queried
                => /\ redisStore'[key] \in {redisStore[key], fetched}
                   /\ ~Issued(last'.calls, {"redis.del"})
                   /\ Count(last'.calls, "redis.set")
                        = (IF redis # Null /\ last'.calls[Len(last'.calls)] # "Query"
                             THEN 1 ELSE 0)
                   /\ (redis # Null /\ ~cacheFailed' /\ last'.error = Ok)
                        => redisStore'[key] = fetched]_vars

\* a getCartForUser has missed, queried a cart of two lines once and written
\* it to the cache
C26_Witness ==
  /\ last.op = "get" /\ last.error = Ok
  /\ last.calls = <<"redis.get", "Query", "redis.set", "BatchGet">>
  /\ Len(last.cart.items) = 2
  /\ redisStore[cacheKey(last.userId)]
       = <<JSONStringify(fetchCartFromDynamo(cartTable, last.userId))>>


\* C27: the calls of one user never change the state of another.  No call a
\* user in Users makes, whatever fault it meets, and no expiry of their
\* snapshot changes a row or the snapshot of the second user.
C27_OtherUserUntouched ==
  [][/\ RowsOf(cartTable', Bystander) = RowsOf(cartTable, Bystander)
     /\ redisStore'[cacheKey(Bystander)] = redisStore[cacheKey(Bystander)]
     /\ (last' # last => last'.userId \in Users)]_vars

\* a user has cleared a cart that held an item the second user holds too;
\* the row and the snapshot of the second user are still there
C27_Witness ==
  /\ last.op = "clear" /\ last.error = Ok
  /\ Issued(last.calls, {"BatchWrite"})
  /\ last.userId # Bystander
  /\ RowsOf(cartTable, last.userId) = {}
  /\ Cardinality(RowsOf(cartTable, Bystander)) = MaxLines
  /\ redisStore[cacheKey(Bystander)]
       = <<JSONStringify(fetchCartFromDynamo(cartTable, Bystander))>>


\* C28: updateItemQuantity with a quantity below 1, zero or negative, raises
\* no validation error for the quantity.  It returns what removeItemFromCart
\* returns for the same user and item in the same state, sends the same
\* commands and leaves the same table and cache; the only validation error it
\* raises is the one for a missing itemId, and otherwise the line is gone.
C28_UpdateBelowOneRemoves ==
  [][(/\ last' # last
      /\ last'.op = "update"
      /\ LessThan(last'.quantity, 1))
     => LET asRemove == removeItemFromCart(cartTable, redisStore, redis, last'.userId,
                                           last'.itemId, NoFault)
        IN /\ last'.error # ErrQuantity
           /\ last'.error = (IF last'.itemId = NoItemId THEN ErrItemRequired ELSE Ok)
           /\ last'.error = asRemove.error
           /\ last'.cart = asRemove.cart
           /\ last'.calls = asRemove.calls
           /\ cartTable' = asRemove.table
           /\ redisStore' = asRemove.rstore
           /\ (last'.error = Ok
                 => ~\E row \in cartTable' :
                       row.userId = last'.userId /\ row.itemId = last'.itemId)]_vars

\* an update with a negative quantity has sent a Delete and returned a cart
\* of one line that does not hold the item
C28_Witness ==
  /\ last.op = "update" /\ last.error = Ok
  /\ last.quantity \in NegativeQuantities
  /\ last.calls[1] = "Delete"
  /\ Cardinality(cartTable) = 1
  /\ ~HasItem(last.cart, last.itemId)


\* C29: a rejection of a store command whose message reports a key-schema
\* mismatch reaches the caller as the schema-hint error, and every other
\* rejection of a cart-table or catalog command reaches the caller as it is,
\* with no command sent after the rejected one: in every state, for every
\* call, every command of it that can be rejected and both messages.
C29_SchemaMismatchReplaced ==
  \A op \in {"get", "add", "remove", "clear"}, u \in Users, i \in ValidItems :
    \A env \in FaultsOf(op), message \in Messages :
      LET res == Thrown(Handle(op, u, i, env), env, message)
      IN Handle(op, u, i, env).error = StoreError
           => /\ res.error = (IF message = SchemaMessage THEN ErrSchemaHint ELSE message)
              /\ res.table = Handle(op, u, i, env).table
              /\ res.calls = Handle(op, u, i, env).calls


\* C30: sequential cache coherence.  With calls run one at a time and no
\* cache command failed so far, the cached snapshot of every user is absent
\* or equal to the durable cart (same storeId, same lines), and the cart a
\* successful getCartForUser has returned is the durable cart, also when
\* snapshots expire or are evicted between the calls.
C30_SequentialCoherence ==
  ~cacheFailed
    => /\ \A u \in Users :
            redisStore[cacheKey(u)]
              \in {<<>>, <<JSONStringify(fetchCartFromDynamo(cartTable, u))>>}
       /\ (last.op = "get" /\ last.error = Ok)
            => last.cart = enrichCart(fetchCartFromDynamo(cartTable, last.userId))


\* a getCartForUser of process g and an addItemToCart of process m, of the
\* same user, have both returned; the get missed and read the cart table
\* before the add put its line, and wrote the cache after the add did
Overtaken(g, m) ==
  /\ g # m
  /\ loc[g].op = "get" /\ Completed(g)
  /\ loc[m].op = "add" /\ Completed(m)
  /\ loc[g].userId = loc[m].userId
  /\ lastSet = g
  /\ ~HasLine(loc[g].freshCart, loc[m].itemId, loc[m].quantity)

\* C31: a getCartForUser that missed the cache never overwrites a newer
\* snapshot.  When an addItemToCart of the same user has put its line and
\* refreshed the cache between the Query of the get and its redis.set, then
\* after both have returned the cached snapshot equals the durable cart.
C31_GetKeepsNewerSnapshot ==
  \A g \in Procs, m \in Procs :
    Overtaken(g, m)
      => redisStore[cacheKey(loc[g].userId)]
           = <<JSONStringify(fetchCartFromDynamo(cartTable, loc[g].userId))>>


\* C32: when a clearCartForUser and an addItemToCart of the same user, run
\* concurrently, have both returned, the cached snapshot equals the durable
\* cart (it is not the empty snapshot while the cart table holds the line
\* the add put).
C32_ClearAndAddCoherent ==
  \A c \in Procs, a \in Procs :
    (/\ loc[c].op = "clear" /\ Completed(c)
     /\ loc[a].op = "add" /\ Completed(a)
     /\ loc[c].userId = loc[a].userId)
      => redisStore[cacheKey(loc[c].userId)]
           = <<JSONStringify(fetchCartFromDynamo(cartTable, loc[c].userId))>>


\* C33: a getCartForUser that follows a clearCartForUser which failed in one
\* of its BatchWrite requests returns exactly the lines the cart table still
\* holds, none of those the failed call had deleted.
C33_GetAfterFailedClear ==
  [][(/\ last.op = "clear" /\ last.error = StoreError
      /\ Issued(last.calls, {"BatchWrite"})
      /\ last'.op = "get" /\ last'.userId = last.userId /\ last'.error = Ok)
     => last'.cart = enrichCart(fetchCartFromDynamo(cartTable', last'.userId))]_vars


\* C34: an addItemToCart or removeItemFromCart that raises an error leaves
\* the cart table as it was, also when the command that fails is the
\* re-fetch Query or the catalog BatchGet after the Put or Delete.
C34_FailedCallLeavesTable ==
  [][cartTable' # cartTable
       => ~(last'.op \in {"add", "remove"} /\ last'.error # Ok)]_vars


\* C35: an addItemToCart for an item that the catalog holds without a
\* storefront (neither storeId nor storefrontId) fails with the error
\* "Item is missing storefront information" (status 400) once the catalog
\* has answered, before any Query, Put or cache command is sent, and leaves
\* cart table and cache as they were; no row of the cart table is ever
\* without a storeId.
C35_NoLineWithoutStorefront ==
  [][/\ \A row \in cartTable' : row.storeId # Null
     /\ (/\ last' # last
         /\ last'.op = "add"
         /\ last'.itemId # NoItemId
         /\ ~LessThan(last'.quantity, 1)
         /\ ItemsTable(last'.itemId).exists
         /\ ItemsTable(last'.itemId).storeId = Null)
        => (/\ last'.error = ErrNoStorefront
            /\ last'.calls = <<"Get">>
            /\ cartTable' = cartTable
            /\ redisStore' = redisStore)]_vars

\* an item without a storefront has been refused on a cart that holds lines
\* and has a snapshot
C35_Witness ==
  /\ last.op = "add" /\ last.error = ErrNoStorefront
  /\ last.itemId = ItemNoStore
  /\ cartTable # {}
  /\ redisStore[cacheKey(last.userId)] # <<>>


\* C36: no completed update of the cart routes is lost.  When two concurrent
\* POST /cart/item requests of one user, for different itemIds, have both
\* been answered 200, the stored cart row holds both items.
C36_NoLostUpdate ==
  \A p \in Procs, q \in Procs :
    (/\ p # q
     /\ loc[p].op = "POST /item" /\ Completed(p)
     /\ loc[q].op = "POST /item" /\ Completed(q)
     /\ loc[p].userId = loc[q].userId
     /\ loc[p].itemId # loc[q].itemId)
      => /\ HasItem(loadCartFromDatabase(rowTable, loc[p].userId), loc[p].itemId)
         /\ HasItem(loadCartFromDatabase(rowTable, loc[p].userId), loc[q].itemId)


\* C37: in the cart routes, once the row has been read, PATCH /cart/item
\* answers 404 for an itemId that is not in the cart, and 400 for an item of
\* the cart with a quantity that is given and is not a finite number >= 1;
\* either way it sends no PutCommand and no cache command and leaves the row
\* and the cache as they were.
C37_PatchRefusedWithoutWrite ==
  \A u \in Users, i \in RouteItems \ {NoItemId}, q \in RouteQuantities :
    \A env \in {f \in RouteSaveFaults : f.storeFail # "get"} :
      LET res == routerPatchItem(rowTable, rowCache, redis, u, i, q, env)
          inCart == HasItem(loadCartFromDatabase(rowTable, u), i)
          badQuantity == q # Undefined /\ (~IsFiniteNumber(q) \/ q < 1)
      IN /\ ~inCart => res.status = 404
         /\ (inCart /\ badQuantity) => res.status = 400
         /\ (~inCart \/ badQuantity)
              => /\ res.table = rowTable
                 /\ res.rcache = rowCache
                 /\ res.calls = <<"Get">>

\* a PATCH with a bad quantity for an item of a cached cart has been
\* answered 400
C37_Witness ==
  /\ rowLast.op = "PATCH /item" /\ rowLast.status = 400
  /\ rowLast.error = "Quantity must be a positive number"
  /\ HasItem(loadCartFromDatabase(rowTable, rowLast.userId), rowLast.itemId)
  /\ rowCache[cacheKeyForCart(rowLast.userId)] # <<>>


\* the items of a cart row have quantities of at least 1 and distinct itemIds
WellFormedItems(items) ==
  /\ \A k \in 1..Len(items) : items[k].quantity >= 1
  /\ \A j \in 1..Len(items), k \in 1..Len(items) :
       j # k => items[j].itemId # items[k].itemId

\* C38: in the cart routes every stored item has a positive quantity and the
\* itemIds of a row are distinct, in every reachable state.  POST /cart/item
\* is answered 200 for every quantity: it replaces an item of the cart in
\* place, appends a new one, and stores 1 when the quantity is not a finite
\* number > 0; the cart a PATCH /cart/item stores has no quantity below 1.
C38_RowItemsWellFormed ==
  \A u \in Users :
    LET items == loadCartFromDatabase(rowTable, u).items
    IN /\ WellFormedItems(items)
       /\ \A i \in RouteItems \ {NoItemId}, q \in RouteQuantities :
            LET post == routerPostItem(rowTable, rowCache, redis, u, i, q, NoFault)
                patch == routerPatchItem(rowTable, rowCache, redis, u, i, q, NoFault)
                at == FindIndex(items, i)
                stored == IF IsFiniteNumber(q) /\ q > 0 THEN q ELSE 1
            IN /\ post.status = 200
               /\ post.cart.items
                    = (IF at > 0
                         THEN [items EXCEPT ![at] = [itemId |-> i, quantity |-> stored]]
                       ELSE Append(items, [itemId |-> i, quantity |-> stored]))
               /\ WellFormedItems(loadCartFromDatabase(post.table, u).items)
               /\ WellFormedItems(loadCartFromDatabase(patch.table, u).items)

\* a POST with a quantity that is no positive number has replaced the first
\* of two items in place, with quantity 1
C38_Witness ==
  /\ rowLast.op = "POST /item" /\ rowLast.status = 200
  /\ ~(IsFiniteNumber(rowLast.quantity) /\ rowLast.quantity > 0)
  /\ Len(loadCartFromDatabase(rowTable, rowLast.userId).items) = 2
  /\ loadCartFromDatabase(rowTable, rowLast.userId).items[1]
       = [itemId |-> rowLast.itemId, quantity |-> 1]


\* the clients that are connected or being connected
Live == isOpen \cup InFlight

\* C39: in the asynchronous helper the "end" event of a client clears the
\* handle of that client only.  Whenever a client ends, redisClient and
\* connectPromise refer to it and no newer client exists; they are never
\* reset while they refer to a newer client, and no two clients are live
\* (open or connecting) at the same time.
C39_EndClearsOwnHandle ==
  [][/\ Cardinality(Live') <= 1
     /\ \A c \in Clients :
          (c \in isOpen /\ c \notin isOpen' /\ promise' = promise)
            => /\ redisClient = c /\ connectPromise = c
               /\ redisClient' = NoClient /\ connectPromise' = NoClient
               /\ \A n \in Clients : n > c => promise[n] = Unbuilt
     /\ \A n \in Live :
          (redisClient = n /\ redisClient' = NoClient) => n \notin Live']_vars

\* C40: the asynchronous getRedisClient never rejects.  When a connection
\* attempt fails, every caller suspended on that attempt continues with null,
\* redisClient and connectPromise are reset, and a later call that finds them
\* reset starts a fresh attempt with a new client.
C40_FailedAttemptResolvesNull ==
  [][/\ \A a \in Clients :
          (promise[a].state = "pending" /\ promise'[a].state = "settled"
             /\ a \notin isOpen')
            => /\ promise'[a].value = NoClient
               /\ \A p \in Procs :
                    awaiting[p] = a => /\ got'[p] = Returned(NoClient)
                                       /\ awaiting'[p] = NoClient
               /\ redisClient' = NoClient /\ connectPromise' = NoClient
     /\ \A p \in Procs :
          (/\ mounted = "cartRoutes"
           /\ redisClient = NoClient /\ connectPromise = NoClient
           /\ awaiting[p] = NoClient
           /\ got'[p] # got[p] \/ awaiting'[p] # awaiting[p])
            => /\ created' = created + 1
               /\ promise'[created'].state = "pending"
               /\ connectPromise' = created'
               /\ awaiting'[p] = created']_vars

\* attempt 1, which both callers shared, has failed; one caller holds null
\* and the other has started attempt 2
C40_Witness ==
  /\ mounted = "cartRoutes"
  /\ promise[1] = [state |-> "settled", value |-> NoClient]
  /\ got["p1"] = Returned(NoClient)
  /\ awaiting["p2"] = 2
  /\ promise[2].state = "pending"

====
